---- MODULE Spec2Model ----
(***************************************************************************)
(* Model of the document generation pipeline of sistema-clinica:           *)
(* placeholder substitution in DOCX templates (core/document_generator.py),*)
(* HTML rendering (core/html_generator.py), the unified generator          *)
(* (core/unified_generator.py), the PDF conversion fallback chains         *)
(* (core/html_to_pdf.py, core/pdf_converter.py, core/pdf_generator.py)     *)
(* and the generation endpoints of the API (backend/main.py).              *)
(*                                                                         *)
(* Python strings are modelled as sequences of one-character strings, so   *)
(* that `in`, str.replace, str.strip and str.upper are computed character  *)
(* by character, as the interpreter computes them.                         *)
(***************************************************************************)
EXTENDS Naturals, Integers, Sequences, FiniteSets, TLC

VARIABLES
    data,          \* the data record handed to the generator (dict: field -> str)
    document,      \* the python-docx Document being processed
    template,      \* the template the document was loaded from (fragments and runs)
    replacements,  \* the replacement map in use (dict, in insertion order)
    snapshots,     \* history: the document after each application of substituir_placeholders
    pc,            \* position of the operation under study
    result,        \* what the operation returned or raised
    files,         \* the files present in the output directory
    log,           \* the records written to the logger
    io,            \* history: the file-system and shell operations performed, in order
    env,           \* the environment of a conversion (installed backends, their behaviour)
    attempts,      \* history: the backends attempted by a conversion, in order
    errors,        \* the `errors` list of a conversion
    db,            \* the committed rows of the tables pacientes, medicos and atestados
    _LOGO_CACHE    \* the module global _LOGO_CACHE of html_generator.py

vars == <<data, document, template, replacements, snapshots, pc, result,
          files, log, io, env, attempts, errors, db, _LOGO_CACHE>>

-----------------------------------------------------------------------------
(* Bounds of the model *)

\* at most this many run boundaries are placed inside a template block
MaxSplits == 2
\* a merged table cell is returned by row.cells at most this many times
MaxCellSpan == 2
\* substituir_placeholders is applied at most this many times to a document
MaxPasses == 2
\* at most this many fields of the base record are removed or blanked
MaxMissing == 2
\* the varying part of a file name given to sanitizar_nome_arquivo has at most
\* this many characters
MaxNameLen == 4
\* encode_image_to_base64 is called at most this many times in a run
MaxCalls == 3
\* at most this many saves are made on one store in a run
MaxSaves == 2

-----------------------------------------------------------------------------
(* Python str operations on sequences of characters *)

Whitespace == {" ", "\t", "\n", "\r"}

LowerAlphabet == <<"a","b","c","d","e","f","g","h","i","j","k","l","m","n","o","p","q","r","s","t","u","v","w","x","y","z">>
UpperAlphabet == <<"A","B","C","D","E","F","G","H","I","J","K","L","M","N","O","P","Q","R","S","T","U","V","W","X","Y","Z">>

\* str.upper() / str.lower() on one character (ASCII letters)
UpperChar(c) ==
    IF \E i \in 1..26 : LowerAlphabet[i] = c
    THEN UpperAlphabet[CHOOSE i \in 1..26 : LowerAlphabet[i] = c]
    ELSE c

LowerChar(c) ==
    IF \E i \in 1..26 : UpperAlphabet[i] = c
    THEN LowerAlphabet[CHOOSE i \in 1..26 : UpperAlphabet[i] = c]
    ELSE c

Upper(s) == [i \in 1..Len(s) |-> UpperChar(s[i])]
Lower(s) == [i \in 1..Len(s) |-> LowerChar(s[i])]

\* s[i:].startswith(k)
StartsWithAt(s, i, k) ==
    /\ i + Len(k) - 1 <= Len(s)
    /\ \A j \in 1..Len(k) : s[i + j - 1] = k[j]

\* k in s
Contains(s, k) == \E i \in 1..(Len(s) + 1) : StartsWithAt(s, i, k)

\* s.replace(old, new): leftmost non-overlapping occurrences, left to right
RECURSIVE ReplaceFrom(_, _, _, _)
ReplaceFrom(s, old, new, i) ==
    LET found == {j \in i..Len(s) : StartsWithAt(s, j, old)}
    IN  IF found = {} THEN SubSeq(s, i, Len(s))
        ELSE LET j == CHOOSE x \in found : \A y \in found : x <= y
             IN  SubSeq(s, i, j - 1) \o new \o ReplaceFrom(s, old, new, j + Len(old))

\* (a string without an occurrence of old is returned as it is)
StrReplace(s, old, new) == IF Contains(s, old) THEN ReplaceFrom(s, old, new, 1) ELSE s

\* s.lstrip(), s.rstrip(), s.strip()
RECURSIVE LStrip(_)
LStrip(s) == IF s # <<>> /\ s[1] \in Whitespace THEN LStrip(Tail(s)) ELSE s

RECURSIVE RStrip(_)
RStrip(s) ==
    IF s # <<>> /\ s[Len(s)] \in Whitespace THEN RStrip(SubSeq(s, 1, Len(s) - 1)) ELSE s

Strip(s) == RStrip(LStrip(s))

\* ' '.join(parts)
RECURSIVE JoinSpace(_)
JoinSpace(parts) ==
    IF parts = <<>> THEN <<>>
    ELSE IF Len(parts) = 1 THEN parts[1]
    ELSE parts[1] \o <<" ">> \o JoinSpace(Tail(parts))

\* concatenation of a sequence of strings
RECURSIVE Concat(_)
Concat(ss) == IF ss = <<>> THEN <<>> ELSE ss[1] \o Concat(Tail(ss))

-----------------------------------------------------------------------------
(* The data record *)

RequiredFields ==
    << "nome_paciente", "tipo_doc_paciente", "numero_doc_paciente",
       "data_atestado", "qtd_dias_atestado", "codigo_cid",
       "nome_medico", "tipo_registro_medico", "crm__medico", "uf_crm_medico" >>

OptionalFields == {"cargo_paciente", "empresa_paciente"}

Fields == {RequiredFields[i] : i \in 1..Len(RequiredFields)} \cup OptionalFields

\* data.get(campo, '')
Get(d, campo) == IF campo \in DOMAIN d THEN d[campo] ELSE <<>>

-----------------------------------------------------------------------------
(* sanitizar_nome_arquivo *)

\* the characters removed by re.sub(r'[<>:"/\\|?*\x00-\x1f]', '', nome)
InvalidFilenameChars ==
    {"<", ">", ":", "\"", "/", "\\", "|", "?", "*", "\t", "\n", "\r", "\f"}

\* nome.split(): the maximal runs of non-whitespace characters
RECURSIVE SplitWords(_)
SplitWords(s) ==
    LET t == LStrip(s)
        n == IF \E i \in 1..Len(t) : t[i] \in Whitespace
             THEN (CHOOSE i \in 1..Len(t) : t[i] \in Whitespace /\ \A j \in 1..(i - 1) : t[j] \notin Whitespace) - 1
             ELSE Len(t)
    IN  IF t = <<>> THEN <<>>
        ELSE <<SubSeq(t, 1, n)>> \o SplitWords(SubSeq(t, n + 1, Len(t)))

\* '_'.join(parts)
RECURSIVE JoinUnderscore(_)
JoinUnderscore(parts) ==
    IF parts = <<>> THEN <<>>
    ELSE IF Len(parts) = 1 THEN parts[1]
    ELSE parts[1] \o <<"_">> \o JoinUnderscore(Tail(parts))

\* s.strip('.')
RECURSIVE StripDots(_)
StripDots(s) ==
    IF s # <<>> /\ s[1] = "." THEN StripDots(Tail(s))
    ELSE IF s # <<>> /\ s[Len(s)] = "." THEN StripDots(SubSeq(s, 1, Len(s) - 1))
    ELSE s

\* variant of SanitizarNomeArquivo: the length is not limited
SanitizarNomeArquivoSemLimite(nome, max_length) ==
    LET Valid(c) == c \notin InvalidFilenameChars
        sem_pontos == StripDots(JoinUnderscore(SplitWords(SelectSeq(nome, Valid))))
    IN  IF nome = <<>> THEN <<"A","r","q","u","i","v","o","_","S","e","m","_","N","o","m","e">>
        ELSE IF sem_pontos = <<>>
             THEN <<"A","r","q","u","i","v","o","_","S","a","n","i","t","i","z","a","d","o">>
             ELSE sem_pontos

\* sanitizar_nome_arquivo(nome, max_length)
SanitizarNomeArquivo(nome, max_length) ==
    LET Valid(c) == c \notin InvalidFilenameChars
        sem_invalidos == SelectSeq(nome, Valid)
        com_underscores == JoinUnderscore(SplitWords(sem_invalidos))
        sem_pontos == StripDots(com_underscores)
        limitado == IF Len(sem_pontos) > max_length THEN SubSeq(sem_pontos, 1, max_length)
                    ELSE sem_pontos
    IN  IF nome = <<>> THEN <<"A","r","q","u","i","v","o","_","S","e","m","_","N","o","m","e">>
        ELSE IF limitado = <<>>
             THEN <<"A","r","q","u","i","v","o","_","S","a","n","i","t","i","z","a","d","o">>
             ELSE limitado

-----------------------------------------------------------------------------
(* validar_dados_documento *)

Digits == {"0","1","2","3","4","5","6","7","8","9"}

DigitValue(c) == CHOOSE n \in 0..9 : <<"0","1","2","3","4","5","6","7","8","9">>[n + 1] = c

RECURSIVE DecimalValue(_)
DecimalValue(ds) ==
    IF ds = <<>> THEN 0
    ELSE 10 * DecimalValue(SubSeq(ds, 1, Len(ds) - 1)) + DigitValue(ds[Len(ds)])

\* int(s) for a str s: surrounding whitespace is ignored, an optional sign,
\* then decimal digits; anything else raises ValueError
IntOf(s) ==
    LET t == Strip(s)
        signed == t # <<>> /\ t[1] \in {"+", "-"}
        ds == IF signed THEN Tail(t) ELSE t
    IN  IF ds # <<>> /\ \A i \in 1..Len(ds) : ds[i] \in Digits
        THEN [ok |-> TRUE,
              val |-> IF signed /\ t[1] = "-" THEN 0 - DecimalValue(ds) ELSE DecimalValue(ds)]
        ELSE [ok |-> FALSE, val |-> 0]

\* variant of CampoAusenteOuVazio: only the presence of the key is tested
CampoAusente(d, campo) == campo \notin DOMAIN d

\* campo not in data or not str(data[campo]).strip()
CampoAusenteOuVazio(d, campo) == campo \notin DOMAIN d \/ Strip(d[campo]) = <<>>

\* the first required field, in the order of campos_obrigatorios, that is absent or blank
PrimeiroCampoInvalido(d) ==
    LET bad == {i \in 1..Len(RequiredFields) : CampoAusenteOuVazio(d, RequiredFields[i])}
    IN  RequiredFields[CHOOSE i \in bad : \A j \in bad : i <= j]

\* validar_dados_documento(data): the bool returned and the warning logged
ValidarDadosDocumento(d) ==
    IF \E i \in 1..Len(RequiredFields) : CampoAusenteOuVazio(d, RequiredFields[i])
    THEN [ok |-> FALSE,
          log |-> <<[level |-> "warning",
                     msg |-> <<"Campo obrigatório ausente ou vazio: ", PrimeiroCampoInvalido(d)>>]>>]
    ELSE IF ~IntOf(d["qtd_dias_atestado"]).ok
    THEN [ok |-> FALSE,
          log |-> <<[level |-> "warning",
                     msg |-> <<"Quantidade de dias deve ser um número inteiro">>]>>]
    ELSE IF IntOf(d["qtd_dias_atestado"]).val <= 0
    THEN [ok |-> FALSE,
          log |-> <<[level |-> "warning",
                     msg |-> <<"Quantidade de dias deve ser maior que zero">>]>>]
    ELSE [ok |-> TRUE, log |-> <<>>]

-----------------------------------------------------------------------------
(* The replacement map of generate_document *)

K_nome_paciente == <<"{","n","o","m","e","_","p","a","c","i","e","n","t","e","}">>
K_documento_paciente_formatado == <<"{","d","o","c","u","m","e","n","t","o","_","p","a","c","i","e","n","t","e","_","f","o","r","m","a","t","a","d","o","}">>
K_data_atestado == <<"{","d","a","t","a","_","a","t","e","s","t","a","d","o","}">>
K_qtd_dias_atestado == <<"{","q","t","d","_","d","i","a","s","_","a","t","e","s","t","a","d","o","}">>
K_codigo_cid_docx == <<"{","c","ó","d","i","g","o","_","c","i","d","}">>
K_cargo_paciente == <<"{","c","a","r","g","o","_","p","a","c","i","e","n","t","e","}">>
K_empresa_paciente == <<"{","e","m","p","r","e","s","a","_","p","a","c","i","e","n","t","e","}">>
K_data_assinatura == <<"_","_","_","/","_","_","_","/","_","_","_","_">>
K_medico_combinado == <<"{","n","o","m","e","_","m","e","d","i","c","o","}","{","c","r","m","_","_","m","e","d","i","c","o","}","-","{","u","f","_","c","r","m","_","m","e","d","i","c","o","}">>
K_nome_medico == <<"{","n","o","m","e","_","m","e","d","i","c","o","}">>
K_crm__medico == <<"{","c","r","m","_","_","m","e","d","i","c","o","}">>
K_tipo_registro_medico == <<"{","t","i","p","o","_","r","e","g","i","s","t","r","o","_","m","e","d","i","c","o","}">>
K_uf_crm_medico == <<"{","u","f","_","c","r","m","_","m","e","d","i","c","o","}">>

\* the alternatives of the title pattern, in the order the regex tries them;
\* each is matched case-insensitively and followed by an optional "."
Titulos ==
    << <<"d","r">>, <<"d","r","a">>, <<"d","r","(","a",")">>, <<"d","r","(","a",")">>,
       <<"p","r","o","f">>, <<"p","r","o","f","a">>, <<"s","r">>, <<"s","r","a">>,
       <<"m","e","d">> >>

\* re.sub(r'(?i)^\s*(dr\.?|dra\.?|...|med\.?\s*)\s*', '', nome).strip():
\* the first alternative that matches after the leading whitespace is consumed
\* with its optional dot and the whitespace after it
RemoverTitulo(nome) ==
    LET s == LStrip(nome)
        matching == {i \in 1..Len(Titulos) : StartsWithAt(Lower(s), 1, Titulos[i])}
    IN  IF matching = {} THEN Strip(nome)
        ELSE LET t == Titulos[CHOOSE i \in matching : \A j \in matching : i <= j]
                 rest == SubSeq(s, Len(t) + 1, Len(s))
                 afterDot == IF rest # <<>> /\ rest[1] = "." THEN Tail(rest) ELSE rest
             IN  Strip(afterDot)

\* registro_formatado_sem_uf: ' '.join of the non-empty tipo_reg and crm_num
RegistroFormatadoSemUf(d) ==
    LET tipo_reg == Strip(Get(d, "tipo_registro_medico"))
        crm_num == Strip(Get(d, "crm__medico"))
    IN  JoinSpace((IF tipo_reg # <<>> THEN <<tipo_reg>> ELSE <<>>)
                  \o (IF crm_num # <<>> THEN <<crm_num>> ELSE <<>>))

\* medico_completo: "<nome sem titulo> <registro>-<uf>"
MedicoCompleto(d) ==
    LET uf_crm == Strip(Get(d, "uf_crm_medico"))
        sem_uf == RegistroFormatadoSemUf(d)
        completo == IF uf_crm # <<>> /\ sem_uf # <<>> THEN sem_uf \o <<"-">> \o uf_crm ELSE sem_uf
    IN  Strip(RemoverTitulo(Strip(Get(d, "nome_medico"))) \o <<" ">> \o completo)

\* the dict `replacements` of generate_document, as its items in insertion order;
\* hoje is datetime.now().strftime("%d/%m/%Y")
BuildReplacements(d, hoje) ==
    << <<K_nome_paciente, Strip(Get(d, "nome_paciente"))>>,
       <<K_documento_paciente_formatado,
         Upper(Get(d, "tipo_doc_paciente")) \o <<" ","n","º",":"," ">> \o Get(d, "numero_doc_paciente")>>,
       <<K_data_atestado, Strip(Get(d, "data_atestado"))>>,
       <<K_qtd_dias_atestado, Get(d, "qtd_dias_atestado")>>,
       <<K_codigo_cid_docx, Strip(Get(d, "codigo_cid"))>>,
       <<K_cargo_paciente, Strip(Get(d, "cargo_paciente"))>>,
       <<K_empresa_paciente, Strip(Get(d, "empresa_paciente"))>>,
       <<K_data_assinatura, hoje>>,
       <<K_medico_combinado, MedicoCompleto(d)>>,
       <<K_nome_medico, RemoverTitulo(Strip(Get(d, "nome_medico")))>>,
       <<K_crm__medico,
         IF RegistroFormatadoSemUf(d) # <<>> THEN RegistroFormatadoSemUf(d)
         ELSE Strip(Get(d, "crm__medico"))>>,
       <<K_tipo_registro_medico, Strip(Get(d, "tipo_registro_medico"))>>,
       <<K_uf_crm_medico, Strip(Get(d, "uf_crm_medico"))>> >>

-----------------------------------------------------------------------------
(* substituir_placeholders *)

\* A paragraph is the sequence of its runs; a run is [text, fmt].
\* paragraph.text: the concatenation of the run texts in order
ParagraphText(paragraph) == Concat([i \in 1..Len(paragraph) |-> paragraph[i].text])

\* variant of InsertByKeyLen: the sort key is len(kv[0]) instead of -len(kv[0])
InsertByKeyLenAscending(sorted, item) ==
    LET n == Cardinality({i \in 1..Len(sorted) : Len(sorted[i][1]) <= Len(item[1])})
    IN  SubSeq(sorted, 1, n) \o <<item>> \o SubSeq(sorted, n + 1, Len(sorted))

\* sorted(replacements.items(), key=lambda kv: -len(kv[0])): a stable sort,
\* items of equal key length keep the insertion order of the dict
InsertByKeyLen(sorted, item) ==
    LET n == Cardinality({i \in 1..Len(sorted) : Len(sorted[i][1]) >= Len(item[1])})
    IN  SubSeq(sorted, 1, n) \o <<item>> \o SubSeq(sorted, n + 1, Len(sorted))

RECURSIVE SortedItems(_)
SortedItems(items) ==
    IF items = <<>> THEN <<>>
    ELSE InsertByKeyLen(SortedItems(SubSeq(items, 1, Len(items) - 1)), items[Len(items)])

\* for key, value in items: texto = texto.replace(key, value)
RECURSIVE ReplaceEach(_, _)
ReplaceEach(texto, items) ==
    IF items = <<>> THEN texto
    ELSE ReplaceEach(StrReplace(texto, items[1][1], items[1][2]), Tail(items))

\* variant of SubstituirEmParagrafo: the replacement is done run by run
SubstituirEmParagrafoPorRun(paragraph, repl) ==
    [i \in 1..Len(paragraph) |->
        [paragraph[i] EXCEPT !.text = ReplaceEach(@, SortedItems(repl))]]

\* variant of SubstituirEmParagrafo: the other runs are not cleared
SubstituirEmParagrafoSemLimpar(paragraph, repl) ==
    LET texto_completo == ParagraphText(paragraph)
        texto_novo == ReplaceEach(texto_completo, SortedItems(repl))
    IN  IF texto_novo = texto_completo \/ Len(paragraph) = 0 THEN paragraph
        ELSE [paragraph EXCEPT ![1].text = texto_novo]

\* substituir_em_paragrafo(paragraph): the runs of the paragraph afterwards
SubstituirEmParagrafo(paragraph, repl) ==
    LET texto_completo == ParagraphText(paragraph)
        precisa_substituir == \E i \in 1..Len(repl) : Contains(texto_completo, repl[i][1])
        texto_novo == ReplaceEach(texto_completo, SortedItems(repl))
    IN  IF ~precisa_substituir THEN paragraph
        ELSE IF texto_novo = texto_completo THEN paragraph
        ELSE IF Len(paragraph) > 0
             THEN [i \in 1..Len(paragraph) |->
                      [paragraph[i] EXCEPT !.text = IF i = 1 THEN texto_novo ELSE <<>>]]
             ELSE <<[text |-> texto_novo, fmt |-> 0]>>

\* the loop over table.rows / row.cells / cell.paragraphs: row_cells is the
\* sequence of cells the iteration yields (a merged cell is yielded once per
\* grid column it spans), each cell holding one paragraph
RECURSIVE VisitCells(_, _, _)
VisitCells(cells, row_cells, repl) ==
    IF row_cells = <<>> THEN cells
    ELSE VisitCells([cells EXCEPT ![row_cells[1]] = SubstituirEmParagrafo(@, repl)],
                    Tail(row_cells), repl)

\* substituir_placeholders(document, replacements)
SubstituirPlaceholders(doc, repl) ==
    [doc EXCEPT
        !.paragraphs = [i \in 1..Len(doc.paragraphs) |-> SubstituirEmParagrafo(doc.paragraphs[i], repl)],
        !.cells = VisitCells(doc.cells, doc.row_cells, repl)]

-----------------------------------------------------------------------------
(* Data records and templates the model explores *)

\* a complete, valid record
BaseRecord ==
    [nome_paciente |-> <<"A","n","a"," ","L","i","m","a">>,
     tipo_doc_paciente |-> <<"c","p","f">>,
     numero_doc_paciente |-> <<"1","2","3">>,
     data_atestado |-> <<"1","0","/","1","1","/","2","0","2","5">>,
     qtd_dias_atestado |-> <<"3">>,
     codigo_cid |-> <<"J","0","6",".","9">>,
     cargo_paciente |-> <<"A","n","a","l","i","s","t","a">>,
     empresa_paciente |-> <<"A","c","m","e">>,
     nome_medico |-> <<"D","r","a","."," ","R","i","t","a"," ","L","u","z">>,
     tipo_registro_medico |-> <<"C","R","M">>,
     crm__medico |-> <<"4","5","6","7">>,
     uf_crm_medico |-> <<"D","F">>]

\* datetime.now().strftime("%d/%m/%Y") at the time of the call
Hoje == <<"0","2","/","1","1","/","2","0","2","6">>

\* d without the field campo
Without(d, campo) == [f \in (DOMAIN d) \ {campo} |-> d[f]]

\* field values a user can type that are equal to placeholder tokens of the template
TokenValues == {K_nome_medico, K_nome_paciente}

\* the fields whose placeholders occur in the template blocks below
TokenFields == {"nome_paciente", "codigo_cid", "uf_crm_medico"}

\* valid records in which one field holds the text of a placeholder token
TokenRecords ==
    {[BaseRecord EXCEPT ![f] = v] : f \in TokenFields, v \in TokenValues}

Lit(text) == [kind |-> "lit", text |-> text]
Key(text) == [kind |-> "key", text |-> text]

\* the shapes of template blocks: the fragments of a block's logical text
BodyShapes ==
    { << Lit(<<"S","r","."," ">>), Key(K_nome_paciente), Lit(<<".">>) >>,
      << Key(K_data_atestado), Lit(<<" ">>), Key(K_codigo_cid_docx) >>,
      << Lit(<<"E","m"," ">>), Key(K_data_assinatura) >>,
      << Lit(<<"D","e","c","l","a","r","o",".">>) >> }

CellShapes ==
    { << Key(K_medico_combinado) >> }

FragmentsText(fragments) == Concat([i \in 1..Len(fragments) |-> fragments[i].text])

\* a template block: its fragments, where it sits, the positions after which a
\* new run starts, and (for a table cell) how many grid columns the cell spans.
\* A block as typed is a single run.
UnsplitTemplates ==
    { [fragments |-> sh, place |-> "body", splits |-> {}, span |-> 0] : sh \in BodyShapes }
    \cup
    { [fragments |-> sh, place |-> "cell", splits |-> {}, span |-> n] :
        sh \in CellShapes, n \in 1..MaxCellSpan }

\* the elements of a set of numbers in increasing order
RECURSIVE Ascending(_)
Ascending(S) ==
    IF S = {} THEN <<>>
    ELSE LET m == CHOOSE x \in S : \A y \in S : x <= y
         IN  <<m>> \o Ascending(S \ {m})

\* the runs of a text cut after the positions of splits; run i has formatting i
RunsOf(text, splits) ==
    LET cuts == <<0>> \o Ascending(splits) \o <<Len(text)>>
    IN  [i \in 1..(Len(cuts) - 1) |->
            [text |-> SubSeq(text, cuts[i] + 1, cuts[i + 1]), fmt |-> i]]

\* Document(TEMPLATE_FILE) for a template holding the one block t
LoadTemplate(t) ==
    LET runs == RunsOf(FragmentsText(t.fragments), t.splits)
    IN  [paragraphs |-> IF t.place = "body" THEN <<runs>> ELSE <<>>,
         cells |-> IF t.place = "cell" THEN <<runs>> ELSE <<>>,
         row_cells |-> [i \in 1..t.span |-> 1]]

NoTemplate == [fragments |-> <<>>, place |-> "body", splits |-> {}, span |-> 0]
NoDocument == [paragraphs |-> <<>>, cells |-> <<>>, row_cells |-> <<>>]
NoResult == [kind |-> "none"]
NoEnv == [kind |-> "none"]
\* Python None
None == "None"
NoDb == [pacientes |-> <<>>, medicos |-> <<>>, atestados |-> <<>>]

-----------------------------------------------------------------------------
(* Specification SpecSubst: a template block is split into runs by editing,
   then substituir_placeholders is applied with the replacement map that
   generate_document builds from the base record *)

InitSubst ==
    /\ data = BaseRecord
    /\ template \in UnsplitTemplates
    /\ replacements = BuildReplacements(data, Hoje)
    /\ document = LoadTemplate(template)
    /\ snapshots = <<document>>
    /\ pc = "template"
    /\ result = NoResult
    /\ files = {}
    /\ log = <<>>
    /\ io = <<>>
    /\ env = NoEnv
    /\ attempts = <<>>
    /\ errors = <<>>
    /\ db = NoDb
    /\ _LOGO_CACHE = None

\* editing the template in the word processor splits a run of the block in two
\* after position p of the block's text (the text itself is unchanged)
SplitRun ==
    /\ pc = "template"
    /\ Cardinality(template.splits) < MaxSplits
    /\ \E p \in 1..(Len(FragmentsText(template.fragments)) - 1) :
          /\ \A q \in template.splits : q < p
          /\ template' = [template EXCEPT !.splits = @ \cup {p}]
    /\ document' = LoadTemplate(template')
    /\ snapshots' = <<document'>>
    /\ UNCHANGED <<data, replacements, pc, result, files, log, io, env, attempts, errors, db, _LOGO_CACHE>>

\* one call of substituir_placeholders(document, replacements)
Substituir ==
    /\ pc \in {"template", "substituir"}
    /\ Len(snapshots) <= MaxPasses
    /\ document' = SubstituirPlaceholders(document, replacements)
    /\ snapshots' = Append(snapshots, document')
    /\ pc' = "substituir"
    /\ UNCHANGED <<data, template, replacements, result, files, log, io, env, attempts, errors, db, _LOGO_CACHE>>

\* the call of substituir_placeholders on the freshly loaded template
SubstituirModelo == Len(snapshots) = 1 /\ Substituir

NextSubst == SplitRun \/ SubstituirModelo

SpecSubst == InitSubst /\ [][NextSubst]_vars

(* Specification SpecReapply: substituir_placeholders is applied, and applied
   again, to single-run template blocks, with the replacement maps built from
   records whose values may hold placeholder text *)

InitReapply ==
    /\ data \in {BaseRecord} \cup TokenRecords
    /\ template \in UnsplitTemplates
    /\ replacements = BuildReplacements(data, Hoje)
    /\ document = LoadTemplate(template)
    /\ snapshots = <<document>>
    /\ pc = "substituir"
    /\ result = NoResult
    /\ files = {}
    /\ log = <<>>
    /\ io = <<>>
    /\ env = NoEnv
    /\ attempts = <<>>
    /\ errors = <<>>
    /\ db = NoDb
    /\ _LOGO_CACHE = None

NextReapply == Substituir

SpecReapply == InitReapply /\ [][NextReapply]_vars

-----------------------------------------------------------------------------
(* generate_document *)

DOCUMENT_PREFIX == <<"D","e","c","l","a","r","a","c","a","o","_">>
DOCUMENT_EXTENSION == <<".","d","o","c","x">>

\* datetime.now().strftime("%Y%m%d_%H%M%S") at the time of the call
Agora == <<"2","0","2","6","1","1","0","2","_","1","8","3","0","0","0">>

\* the template file: one body paragraph whose placeholder is cut in two runs
GenTemplate ==
    [fragments |-> << Lit(<<"S","r","."," ">>), Key(K_nome_paciente), Lit(<<".">>) >>,
     place |-> "body", splits |-> {9}, span |-> 0]

\* output_path: GENERATED_DOCS_DIR / f"{DOCUMENT_PREFIX}{nome}_{timestamp}{DOCUMENT_EXTENSION}"
OutputPath(d) ==
    DOCUMENT_PREFIX
        \o SanitizarNomeArquivo(IF "nome_paciente" \in DOMAIN d THEN d["nome_paciente"]
                                ELSE <<"P","a","c","i","e","n","t","e">>, 50)
        \o <<"_">> \o Agora \o DOCUMENT_EXTENSION

Info(msg) == [level |-> "info", msg |-> msg]
ErrorLog(msg) == [level |-> "error", msg |-> msg]

\* the except clause of generate_document: whatever was raised inside the try
\* is logged and re-raised as DocumentGenerationError(f"Erro ao gerar documento: {e}")
GenFailure(inner_msg, state) ==
    [state EXCEPT
        !.result = [kind |-> "raise", type |-> "DocumentGenerationError",
                    msg |-> <<"Erro ao gerar documento: ">> \o inner_msg],
        !.log = @ \o <<ErrorLog(<<"Erro ao gerar documento: ">> \o inner_msg)>>]

\* generate_document(data) in the environment e, with the template file t:
\* what it returns or raises, and what it leaves behind
GenerateDocumentOutcome(d, t, e) ==
    LET validacao == ValidarDadosDocumento(d)
        start == [result |-> NoResult, files |-> {}, io |-> <<>>,
                  log |-> <<Info(<<"Iniciando geração de documento...">>)>> \o validacao.log,
                  document |-> NoDocument, replacements |-> <<>>, snapshots |-> <<>>]
        loaded == LoadTemplate(t)
        repl == BuildReplacements(d, Hoje)
        substituted == SubstituirPlaceholders(loaded, repl)
        atLoad == [start EXCEPT !.io = <<"mkdir", "load_template">>]
        atSave == [atLoad EXCEPT !.io = @ \o <<"save">>,
                                 !.document = substituted,
                                 !.replacements = repl,
                                 !.snapshots = <<loaded, substituted>>]
    IN  IF ~validacao.ok
        THEN GenFailure(<<"Dados de entrada inválidos ou incompletos">>, start)
        ELSE IF e.template = "missing"
        THEN GenFailure(<<"Arquivo de template não encontrado: ", "TEMPLATE_FILE">>, start)
        ELSE IF e.template = "corrupt"
        THEN GenFailure(<<"Package not found at ", "TEMPLATE_FILE">>, atLoad)
        ELSE IF ~e.save_ok
        THEN GenFailure(<<"[Errno 13] Permission denied: ", "output_path">>, atSave)
        ELSE [atSave EXCEPT
                !.files = {OutputPath(d)},
                !.io = @ \o (IF e.production THEN <<>> ELSE <<"open">>),
                !.log = @ \o <<Info(<<"Documento gerado com sucesso: ", "output_path">>)>>,
                !.result = [kind |-> "return", value |-> OutputPath(d)]]

\* the records of the base record with up to k fields removed or blanked
RECURSIVE Alterations(_)
Alterations(k) ==
    IF k = 0 THEN {BaseRecord}
    ELSE LET fewer == Alterations(k - 1)
         IN  fewer
             \cup {Without(r, f) : <<r, f>> \in {<<r, f>> \in fewer \X Fields : f \in DOMAIN r}}
             \cup {[r EXCEPT ![f] = <<" ">>] : <<r, f>> \in {<<r, f>> \in fewer \X Fields : f \in DOMAIN r}}

\* the records generate_document is called with: complete ones, ones with
\* missing or blank fields, and ones whose number of days is not a positive integer
GenRecords ==
    Alterations(MaxMissing)
    \cup {[BaseRecord EXCEPT !["qtd_dias_atestado"] = v] : v \in {<<"0">>, <<"-","1">>, <<"x">>}}

\* the environments of a call: the state of the template file, whether the
\* output directory can be written, and whether RENDER/VERCEL/RAILWAY is set
GenEnvs ==
    [kind : {"gen"}, template : {"ok", "missing", "corrupt"},
     save_ok : BOOLEAN, production : BOOLEAN]

(* Specification Spec: one call of generate_document *)

Init ==
    /\ data \in GenRecords
    /\ template = GenTemplate
    /\ env \in GenEnvs
    /\ replacements = <<>>
    /\ document = NoDocument
    /\ snapshots = <<>>
    /\ pc = "call"
    /\ result = NoResult
    /\ files = {}
    /\ log = <<>>
    /\ io = <<>>
    /\ attempts = <<>>
    /\ errors = <<>>
    /\ db = NoDb
    /\ _LOGO_CACHE = None

GenerateDocument ==
    /\ pc = "call"
    /\ LET out == GenerateDocumentOutcome(data, template, env)
       IN  /\ result' = out.result
           /\ files' = out.files
           /\ io' = out.io
           /\ log' = out.log
           /\ document' = out.document
           /\ replacements' = out.replacements
           /\ snapshots' = out.snapshots
    /\ pc' = "done"
    /\ UNCHANGED <<data, template, env, attempts, errors, db, _LOGO_CACHE>>

Next == GenerateDocument

Spec == Init /\ [][Next]_vars

-----------------------------------------------------------------------------
(* convert_html_to_pdf and its three backends (core/html_to_pdf.py) *)

\* the file a conversion is asked to produce
PdfPath == "output.pdf"

\* What a backend does when called, as the environment decides it:
\*   "ok"            it writes the PDF at output_path
\*   "not_installed" its import raises ImportError
\*   "error"         it raises while converting
\*   "no_file"       it returns without raising and without writing a file
\*   "pisa_err"      (xhtml2pdf) CreatePDF reports errors in pisa_status.err
BackendBehaviours(name) ==
    IF name = "xhtml2pdf" THEN {"ok", "not_installed", "error", "pisa_err"}
    ELSE {"ok", "not_installed", "error", "no_file"}

\* the message of the PDFConversionError raised on ImportError
InstallHint(name) ==
    IF name = "WeasyPrint" THEN <<"WeasyPrint não instalado. Instale com: pip install weasyprint">>
    ELSE IF name = "pdfkit"
    THEN <<"pdfkit não instalado. Instale com: pip install pdfkit\n",
           "Também instale wkhtmltopdf: https://wkhtmltopdf.org/downloads.html">>
    ELSE <<"xhtml2pdf não instalado. Instale com: pip install xhtml2pdf">>

\* variant of CallBackend: a backend that returns is believed without looking
\* for the file
CallBackendUnverified(name, behaviour, fs, output_path) ==
    IF behaviour \in {"ok", "no_file"}
    THEN [ok |-> TRUE, msg |-> <<>>,
          files |-> IF behaviour = "ok" THEN fs \cup {output_path} ELSE fs]
    ELSE [ok |-> FALSE, msg |-> <<"Erro ", name>>, files |-> fs]

\* convert_html_to_pdf_weasyprint / _pdfkit / _xhtml2pdf asked to write
\* output_path when the files fs exist; returns whether it returned output_path or raised
\* PDFConversionError(msg), and the files that exist afterwards.
\* xhtml2pdf opens output_path for writing before it converts, so the file
\* exists whatever CreatePDF does.
CallBackend(name, behaviour, fs, output_path) ==
    LET Raise(msg, after) == [ok |-> FALSE, msg |-> msg, files |-> after]
        Return(after) == [ok |-> TRUE, msg |-> <<>>, files |-> after]
    IN  IF behaviour = "not_installed" THEN Raise(InstallHint(name), fs)
        ELSE IF name = "xhtml2pdf"
        THEN IF behaviour = "ok" THEN Return(fs \cup {output_path})
             ELSE IF behaviour = "pisa_err"
             THEN Raise(<<"Erro xhtml2pdf: ", "Erro ao gerar PDF com xhtml2pdf">>, fs \cup {output_path})
             ELSE Raise(<<"Erro xhtml2pdf: ", "conversion failed">>, fs \cup {output_path})
        ELSE IF behaviour = "ok" THEN Return(fs \cup {output_path})
        ELSE IF behaviour = "error" THEN Raise(<<"Erro ", name, ": ", "conversion failed">>, fs)
        ELSE IF output_path \in fs THEN Return(fs)
        ELSE Raise(<<"Erro ", name, ": ", "PDF não foi gerado">>, fs)

\* variant of AppendError: only the latest failure is kept
KeepLastError(errs, name, msg) == << <<name, ": ">> \o msg >>

\* errors.append(f"{name}: {e}")
AppendError(errs, name, msg) == Append(errs, <<name, ": ">> \o msg)

\* variant of Methods: pdfkit is tried before WeasyPrint
MethodsPdfkitFirst == <<"pdfkit", "WeasyPrint", "xhtml2pdf">>

\* the list `methods` of convert_html_to_pdf, in priority order
Methods == <<"WeasyPrint", "pdfkit", "xhtml2pdf">>

\* the for loop over methods from index i on: st holds the backends attempted
\* so far, the errors list and the files that exist (the bullets of the final
\* message are written as asterisks)
RECURSIVE ConvertLoop(_, _, _)
ConvertLoop(i, backends, st) ==
    IF i > Len(Methods)
    THEN [st EXCEPT !.result =
            [kind |-> "raise", type |-> "PDFConversionError",
             msg |-> <<"Nenhum conversor PDF disponível. Instale pelo menos um:\n",
                       "* WeasyPrint (recomendado): pip install weasyprint\n",
                       "* pdfkit: pip install pdfkit + wkhtmltopdf\n",
                       "* xhtml2pdf: pip install xhtml2pdf\n\n",
                       "Erros:\n">> \o Concat(st.errors)]]
    ELSE LET name == Methods[i]
             r == CallBackend(name, backends[name], st.files, st.path)
             tried == [st EXCEPT !.attempts = Append(@, name), !.files = r.files]
         IN  IF r.ok
             THEN [tried EXCEPT !.result = [kind |-> "return", value |-> st.path]]
             ELSE ConvertLoop(i + 1, backends,
                              [tried EXCEPT !.errors = AppendError(@, name, r.msg)])

\* the name convert_html_to_pdf compares method.lower() with
BackendOfMethod(method) ==
    IF method = "weasyprint" THEN "WeasyPrint" ELSE method

\* convert_html_to_pdf(html_content, output_path, method) with the backends
\* behaving as given, when the files fs exist; method "" stands for None.
\* The HTML text plays no part in which backend runs or what is returned.
ConvertHtmlToPdf(output_path, method, backends, fs) ==
    LET st == [attempts |-> <<>>, errors |-> <<>>, files |-> fs, result |-> NoResult,
               path |-> output_path]
    IN  IF method = "" THEN ConvertLoop(1, backends, st)
        ELSE IF method \in {"weasyprint", "pdfkit", "xhtml2pdf"}
        THEN LET name == BackendOfMethod(method)
                 r == CallBackend(name, backends[name], fs, output_path)
             IN  [st EXCEPT
                    !.attempts = <<name>>,
                    !.files = r.files,
                    !.result = IF r.ok THEN [kind |-> "return", value |-> output_path]
                               ELSE [kind |-> "raise", type |-> "PDFConversionError",
                                     msg |-> r.msg]]
        ELSE [st EXCEPT !.result = [kind |-> "raise", type |-> "PDFConversionError",
                                    msg |-> <<"Método inválido: ", method>>]]

\* the environments of a conversion: the method argument, the behaviour of
\* each backend, and whether a file already exists at output_path
BackendEnvs ==
    {b \in [{"WeasyPrint", "pdfkit", "xhtml2pdf"} ->
               {"ok", "not_installed", "error", "no_file", "pisa_err"}] :
        \A n \in DOMAIN b : b[n] \in BackendBehaviours(n)}

PdfEnvs ==
    [kind : {"pdf"}, method : {"", "weasyprint", "pdfkit", "xhtml2pdf", "chrome"},
     backends : BackendEnvs, stale : BOOLEAN]

(* Specification SpecPdf: one call of convert_html_to_pdf *)

InitPdf ==
    /\ env \in PdfEnvs
    /\ files = IF env.stale THEN {PdfPath} ELSE {}
    /\ data = BaseRecord
    /\ template = NoTemplate
    /\ replacements = <<>>
    /\ document = NoDocument
    /\ snapshots = <<>>
    /\ pc = "call"
    /\ result = NoResult
    /\ log = <<>>
    /\ io = <<>>
    /\ attempts = <<>>
    /\ errors = <<>>
    /\ db = NoDb
    /\ _LOGO_CACHE = None

ConvertHtmlToPdfCall ==
    /\ pc = "call"
    /\ LET out == ConvertHtmlToPdf(PdfPath, env.method, env.backends, files)
       IN  /\ result' = out.result
           /\ files' = out.files
           /\ attempts' = out.attempts
           /\ errors' = out.errors
    /\ pc' = "done"
    /\ UNCHANGED <<data, template, replacements, document, snapshots, log, io, env, db, _LOGO_CACHE>>

NextPdf == ConvertHtmlToPdfCall

SpecPdf == InitPdf /\ [][NextPdf]_vars

-----------------------------------------------------------------------------
(* convert_docx_to_pdf and its two strategies (core/pdf_converter.py) *)

\* the PDF the conversion of the input DOCX is expected at
DocxPdfPath == "documento.pdf"

\* What the LibreOffice subprocess does, as the environment decides it:
\*   "ok" writes the PDF; "no_output" exits 0 without writing it;
\*   "timeout" TimeoutExpired; "nonzero" CalledProcessError;
\*   "not_found" FileNotFoundError (no binary); "other" any other exception
LibreOfficeBehaviours == {"ok", "no_output", "timeout", "nonzero", "not_found", "other"}

\* What docx2pdf does: "ok" writes the PDF; "no_output" returns without
\* writing it; "not_installed" ImportError; "error" convert raises
Docx2pdfBehaviours == {"ok", "no_output", "not_installed", "error"}

\* convert_docx_to_pdf_libreoffice in the environment e when the files fs
\* exist: "return", "raise" of PDFConversionError(msg), or "oserror" when
\* output_dir.mkdir raises outside the try block
ConvertDocxToPdfLibreoffice(e, fs) ==
    LET Raise(msg) == [kind |-> "raise", msg |-> msg, files |-> fs]
    IN  IF ~e.docx_exists THEN Raise(<<"Arquivo DOCX não encontrado: ", "docx_path">>)
        ELSE IF e.output_dir = "unwritable"
        THEN [kind |-> "oserror", msg |-> <<"[Errno 13] Permission denied: ", "output_dir">>,
              files |-> fs]
        ELSE IF e.libreoffice = "ok"
        THEN [kind |-> "return", msg |-> <<>>, files |-> fs \cup {DocxPdfPath}]
        ELSE IF e.libreoffice = "no_output"
        THEN IF DocxPdfPath \in fs THEN [kind |-> "return", msg |-> <<>>, files |-> fs]
             ELSE Raise(<<"Erro inesperado: ", "PDF não foi gerado em: ", "pdf_path">>)
        ELSE IF e.libreoffice = "timeout"
        THEN Raise(<<"Timeout na conversão para PDF (>30s)">>)
        ELSE IF e.libreoffice = "nonzero"
        THEN Raise(<<"Erro na conversão: ", "stderr">>)
        ELSE IF e.libreoffice = "not_found"
        THEN Raise(<<"LibreOffice não encontrado. Instale com: apt-get install libreoffice (Linux) ",
                     "ou baixe de https://www.libreoffice.org/download/download/">>)
        ELSE Raise(<<"Erro inesperado: ", "exception">>)

\* convert_docx_to_pdf_docx2pdf in the environment e when the files fs exist
ConvertDocxToPdfDocx2pdf(e, fs) ==
    LET Raise(msg) == [kind |-> "raise", msg |-> msg, files |-> fs]
    IN  IF e.docx2pdf = "not_installed"
        THEN Raise(<<"Biblioteca docx2pdf não instalada. Instale com: pip install docx2pdf">>)
        ELSE IF ~e.docx_exists THEN Raise(<<"Arquivo DOCX não encontrado: ", "docx_path">>)
        ELSE IF e.output_dir = "unwritable"
        THEN [kind |-> "oserror", msg |-> <<"[Errno 13] Permission denied: ", "output_dir">>,
              files |-> fs]
        ELSE IF e.docx2pdf = "ok"
        THEN [kind |-> "return", msg |-> <<>>, files |-> fs \cup {DocxPdfPath}]
        ELSE IF e.docx2pdf = "no_output"
        THEN IF DocxPdfPath \in fs THEN [kind |-> "return", msg |-> <<>>, files |-> fs]
             ELSE Raise(<<"Erro na conversão: ", "PDF não foi gerado em: ", "pdf_path">>)
        ELSE Raise(<<"Erro na conversão: ", "exception">>)

\* variant of Docx2pdfIsTried: the second strategy is tried on every platform
Docx2pdfOnEveryPlatform(system) == TRUE

\* the test `platform.system() == "Windows"` that guards the second strategy
Docx2pdfIsTried(system) == system = "Windows"

\* what a strategy's result makes of the call: an exception other than
\* PDFConversionError is not caught by convert_docx_to_pdf
Propagated(r) ==
    IF r.kind = "return" THEN [kind |-> "return", value |-> DocxPdfPath]
    ELSE [kind |-> "raise", type |-> "OSError", msg |-> r.msg]

\* convert_docx_to_pdf(docx_path, output_dir) in the environment e when the
\* files fs exist
ConvertDocxToPdf(e, fs) ==
    LET lo == ConvertDocxToPdfLibreoffice(e, fs)
        st1 == [attempts |-> <<"LibreOffice">>, errors |-> <<>>, log |-> <<>>,
                files |-> lo.files, result |-> NoResult]
        Fail(st) ==
            [st EXCEPT !.result =
                [kind |-> "raise", type |-> "PDFConversionError",
                 msg |-> <<"Nenhum conversor PDF disponível. Erros:\n">> \o Concat(st.errors)]]
    IN  IF lo.kind # "raise" THEN [st1 EXCEPT !.result = Propagated(lo)]
        ELSE LET failed1 == [st1 EXCEPT
                                !.errors = <<(<<"LibreOffice", ": ">> \o lo.msg)>>,
                                !.log = <<[level |-> "warning",
                                           msg |-> <<"LibreOffice falhou: ">> \o lo.msg]>>]
             IN  IF ~Docx2pdfIsTried(e.platform) THEN Fail(failed1)
                 ELSE LET d2 == ConvertDocxToPdfDocx2pdf(e, failed1.files)
                          st2 == [failed1 EXCEPT !.attempts = Append(@, "docx2pdf"),
                                                 !.files = d2.files]
                      IN  IF d2.kind # "raise" THEN [st2 EXCEPT !.result = Propagated(d2)]
                          ELSE Fail([st2 EXCEPT
                                       !.errors = Append(@, <<"docx2pdf", ": ">> \o d2.msg),
                                       !.log = Append(@, [level |-> "warning",
                                                          msg |-> <<"docx2pdf falhou: ">> \o d2.msg])])

\* the environments of a conversion: the operating system, whether the input
\* DOCX exists, the output_dir argument (None, a directory that can be created,
\* one that cannot), what each converter does, and whether a PDF of that name
\* is already there
DocxEnvs ==
    [kind : {"docx2pdf"}, platform : {"Windows", "Linux", "Darwin"},
     docx_exists : BOOLEAN, output_dir : {"none", "ok", "unwritable"},
     libreoffice : LibreOfficeBehaviours, docx2pdf : Docx2pdfBehaviours,
     stale : BOOLEAN]

(* Specification SpecDocxPdf: one call of convert_docx_to_pdf *)

InitDocxPdf ==
    /\ env \in DocxEnvs
    /\ files = IF env.stale THEN {DocxPdfPath} ELSE {}
    /\ data = BaseRecord
    /\ template = NoTemplate
    /\ replacements = <<>>
    /\ document = NoDocument
    /\ snapshots = <<>>
    /\ pc = "call"
    /\ result = NoResult
    /\ log = <<>>
    /\ io = <<>>
    /\ attempts = <<>>
    /\ errors = <<>>
    /\ db = NoDb
    /\ _LOGO_CACHE = None

ConvertDocxToPdfCall ==
    /\ pc = "call"
    /\ LET out == ConvertDocxToPdf(env, files)
       IN  /\ result' = out.result
           /\ files' = out.files
           /\ attempts' = out.attempts
           /\ errors' = out.errors
           /\ log' = out.log
    /\ pc' = "done"
    /\ UNCHANGED <<data, template, replacements, document, snapshots, io, env, db, _LOGO_CACHE>>

NextDocxPdf == ConvertDocxToPdfCall

SpecDocxPdf == InitDocxPdf /\ [][NextDocxPdf]_vars

-----------------------------------------------------------------------------
(* generate_html (core/html_generator.py) *)

\* the keys of generate_html's replacements that the DOCX generator does not have
K_logo_base64 == <<"{","l","o","g","o","_","b","a","s","e","6","4","}">>
K_codigo_cid == <<"{","c","o","d","i","g","o","_","c","i","d","}">>
K_crm_medico == <<"{","c","r","m","_","m","e","d","i","c","o","}">>
K_data_linha == <<"B","r","a","s","í","l","i","a",","," ","_","_","_","/","_","_","_","/","_","_","_","_">>

\* the text of get_html_template() reduced to its sentences that hold
\* placeholders: the logo, the declaration, the date line and the table rows
HtmlTemplateFragments ==
    << Lit(<<"<","i","m","g"," ","s","r","c","=","\"">>),
       Key(K_logo_base64),
       Lit(<<"\"","/",">","D","e","c","l","a","r","o"," ","q","u","e"," ","o"," ","S","r","."," ","(","A",")"," ">>),
       Key(K_nome_paciente),
       Lit(<<" ","d","e"," ">>),
       Key(K_documento_paciente_formatado),
       Lit(<<"."," ","a","t","e","s","t","a","d","o"," ","d","a","t","a"," ","d","o"," ">>),
       Key(K_data_atestado),
       Lit(<<" ","p","e","l","o"," ","p","e","r","í","o","d","o"," ","d","e"," ">>),
       Key(K_qtd_dias_atestado),
       Lit(<<" ","d","i","a","(","s",")"," ","c","o","m"," ","C","I","D",":"," ">>),
       Key(K_codigo_cid),
       Lit(<<" ","D","r","."," ","(","a",")"," ">>),
       Key(K_nome_medico),
       Lit(<<" ">>),
       Key(K_crm_medico),
       Lit(<<"-">>),
       Key(K_uf_crm_medico),
       Lit(<<".">>),
       Key(K_data_linha),
       Lit(<<" ","E","M","P","R","E","S","A",":"," ">>),
       Key(K_empresa_paciente),
       Lit(<<" ","C","A","R","G","O",":"," ">>),
       Key(K_cargo_paciente) >>

HtmlTemplate == FragmentsText(HtmlTemplateFragments)

\* get_logo_base64() when the extracted logo file exists
LogoBase64 == <<"d","a","t","a",":","i","m","a","g","e","/","p","n","g",";","b","a","s","e","6","4",",","i","V","B","O","R">>

\* f"Brasília, {day} de {meses[month - 1]} de {year}" at the time of the call
DataExtenso == <<"B","r","a","s","í","l","i","a",","," ","2"," ","d","e"," ","n","o","v","e","m","b","r","o"," ","d","e"," ","2","0","2","6">>

IsDigits(s) == \A i \in 1..Len(s) : s[i] \in Digits

\* the number of days of a month, as datetime checks a parsed date
DaysInMonth(y, m) ==
    IF m \in {4, 6, 9, 11} THEN 30
    ELSE IF m # 2 THEN 31
    ELSE IF (y % 4 = 0 /\ y % 100 # 0) \/ y % 400 = 0 THEN 29 ELSE 28

\* datetime.strptime(s, fmt).strftime("%d/%m/%Y") for the date formats of
\* parse_formats, with two-digit day and month and four-digit year: order is
\* "ymd" or "dmy", sep the separator; <<>> when strptime raises
ParseDate(s, order, sep) ==
    LET yy == IF order = "ymd" THEN SubSeq(s, 1, 4) ELSE SubSeq(s, 7, 10)
        mm == IF order = "ymd" THEN SubSeq(s, 6, 7) ELSE SubSeq(s, 4, 5)
        dd == IF order = "ymd" THEN SubSeq(s, 9, 10) ELSE SubSeq(s, 1, 2)
        s1 == IF order = "ymd" THEN 5 ELSE 3
        s2 == IF order = "ymd" THEN 8 ELSE 6
    IN  IF /\ Len(s) = 10 /\ s[s1] = sep /\ s[s2] = sep
           /\ IsDigits(yy) /\ IsDigits(mm) /\ IsDigits(dd)
           /\ DecimalValue(yy) >= 1
           /\ DecimalValue(mm) \in 1..12
           /\ DecimalValue(dd) \in 1..DaysInMonth(DecimalValue(yy), DecimalValue(mm))
        THEN dd \o <<"/">> \o mm \o <<"/">> \o yy
        ELSE <<>>

\* whether s is a time HH:MM:SS that %H:%M:%S accepts
IsTime(s) ==
    /\ Len(s) = 8 /\ s[3] = ":" /\ s[6] = ":"
    /\ IsDigits(SubSeq(s, 1, 2)) /\ IsDigits(SubSeq(s, 4, 5)) /\ IsDigits(SubSeq(s, 7, 8))
    /\ DecimalValue(SubSeq(s, 1, 2)) <= 23
    /\ DecimalValue(SubSeq(s, 4, 5)) <= 59
    /\ DecimalValue(SubSeq(s, 7, 8)) <= 61

\* _format_date_brazil(date_input) for a string: a date already written
\* dd/dd/dddd is kept; otherwise the first of parse_formats that parses the
\* text gives the date, and a text that none parses is returned stripped
FormatDateBrazil(date_input) ==
    LET s == Strip(date_input)
        isBR == /\ Len(s) = 10 /\ s[3] = "/" /\ s[6] = "/"
                /\ IsDigits(SubSeq(s, 1, 2)) /\ IsDigits(SubSeq(s, 4, 5))
                /\ IsDigits(SubSeq(s, 7, 10))
        stamp == IF Len(s) = 19 /\ s[11] \in {"T", " "} /\ IsTime(SubSeq(s, 12, 19))
                 THEN ParseDate(SubSeq(s, 1, 10), "ymd", "-") ELSE <<>>
        tries == << ParseDate(s, "ymd", "-"), stamp, ParseDate(s, "ymd", "/"),
                    ParseDate(s, "dmy", "-"), ParseDate(s, "dmy", ".") >>
        parsed == {i \in 1..Len(tries) : tries[i] # <<>>}
    IN  IF date_input = <<>> THEN <<>>
        ELSE IF isBR THEN s
        ELSE IF parsed # {} THEN tries[CHOOSE i \in parsed : \A j \in parsed : i <= j]
        ELSE s

\* the dict `replacements` of generate_html, as its items in insertion order
HtmlReplacements(d, logo) ==
    LET tipo_registro == Strip(Get(d, "tipo_registro_medico"))
        crm_numero == Strip(Get(d, "crm__medico"))
        crm_formatado == IF tipo_registro # <<>> THEN tipo_registro \o <<" ">> \o crm_numero
                         ELSE crm_numero
    IN  << <<K_logo_base64, logo>>,
           <<K_nome_paciente, Strip(Get(d, "nome_paciente"))>>,
           <<K_documento_paciente_formatado,
             Upper(Get(d, "tipo_doc_paciente")) \o <<" ","n","º",":"," ">>
                \o Get(d, "numero_doc_paciente")>>,
           <<K_data_atestado, FormatDateBrazil(Get(d, "data_atestado"))>>,
           <<K_qtd_dias_atestado, Get(d, "qtd_dias_atestado")>>,
           <<K_codigo_cid, Strip(Get(d, "codigo_cid"))>>,
           <<K_cargo_paciente, Strip(Get(d, "cargo_paciente"))>>,
           <<K_empresa_paciente, Strip(Get(d, "empresa_paciente"))>>,
           <<K_nome_medico, Strip(Get(d, "nome_medico"))>>,
           <<K_crm_medico, crm_formatado>>,
           <<K_uf_crm_medico, Strip(Get(d, "uf_crm_medico"))>>,
           <<K_data_linha, DataExtenso>> >>

\* generate_html(data): every key is replaced in the template, one after the
\* other in the order of the dict; no field of data is checked
GenerateHtml(d, logo) == ReplaceEach(HtmlTemplate, HtmlReplacements(d, logo))

-----------------------------------------------------------------------------
(* generate_document_unified (core/unified_generator.py) *)

\* sanitizar_nome_arquivo of unified_generator.py
UnifiedSanitizarNomeArquivo(nome, max_length) ==
    LET Valid(c) == c \notin InvalidFilenameChars
        nome_limpo == StripDots(JoinUnderscore(SplitWords(SelectSeq(nome, Valid))))
        cortado == IF Len(nome_limpo) > max_length THEN SubSeq(nome_limpo, 1, max_length)
                   ELSE nome_limpo
    IN  IF nome = <<>> THEN <<"A","r","q","u","i","v","o","_","S","e","m","_","N","o","m","e">>
        ELSE IF cortado = <<>> THEN <<"A","r","q","u","i","v","o","_","S","a","n","i","t","i","z","a","d","o">>
        ELSE cortado

\* base_filename: f"Declaracao_{nome_paciente_sanitizado}_{timestamp}"
BaseFilename(d) ==
    <<"D","e","c","l","a","r","a","c","a","o","_">>
        \o UnifiedSanitizarNomeArquivo(IF "nome_paciente" \in DOMAIN d THEN d["nome_paciente"]
                                       ELSE <<"P","a","c","i","e","n","t","e">>, 30)
        \o <<"_">> \o Agora

\* convert_html_to_docx(html_content, output_path) in auto mode: "ok" when one
\* of its converters writes the file, "fail" when all of them raise
ConvertHtmlToDocx(output_path, behaviour, fs) ==
    IF behaviour = "ok"
    THEN [ok |-> TRUE, msg |-> <<>>, files |-> fs \cup {output_path}]
    ELSE [ok |-> FALSE, files |-> fs,
          msg |-> <<"Nenhum conversor DOCX disponível. Instale pelo menos um:\n">>]

valid_formats == {"html", "pdf", "docx", "all"}

\* what generate_document_unified raises
UnifiedDocumentError(msg) == [kind |-> "raise", type |-> "UnifiedDocumentError", msg |-> msg]

\* the state of a call before its first step: nothing written, results = {}
UnifiedStart(e) ==
    [result |-> NoResult, files |-> {}, io |-> <<>>, results |-> <<>>,
     attempts |-> <<>>, errors |-> <<>>, html |-> <<>>,
     log |-> <<Info(<<"Gerando documento no formato: ", e.output_format>>)>>]

\* variant of UnifiedSalvarHtml: the HTML file is written and listed whatever
\* the format
UnifiedSalvarHtmlSempre(start, wantsHtml, html_content, html_path) ==
    [start EXCEPT
        !.io = <<"mkdir", "write_html">>,
        !.html = html_content,
        !.files = {html_path},
        !.results = << <<"html", html_path>> >>]

\* PASSO 1, after generate_html returned html_content: the HTML file is written
\* when the format is 'html' or 'all'
UnifiedSalvarHtml(start, wantsHtml, html_content, html_path) ==
    [start EXCEPT
        !.io = <<"mkdir">> \o (IF wantsHtml THEN <<"write_html">> ELSE <<>>),
        !.html = html_content,
        !.files = IF wantsHtml THEN {html_path} ELSE {},
        !.results = IF wantsHtml THEN << <<"html", html_path>> >> ELSE <<>>]

UnifiedPasso1(d, e) ==
    UnifiedSalvarHtml(UnifiedStart(e), e.output_format \in {"html", "all"},
                      GenerateHtml(d, LogoBase64),
                      BaseFilename(d) \o <<".","h","t","m","l">>)

\* variant of UnifiedAposPdf: the PDF path joins results whether or not the
\* conversion succeeded
UnifiedAposPdfSempreListado(e, pdf_path, s1, pdf) ==
    [s1 EXCEPT
        !.files = pdf.files, !.attempts = pdf.attempts, !.errors = pdf.errors,
        !.results = Append(@, <<"pdf", pdf_path>>)]

\* PASSO 2, after convert_html_to_pdf ended as pdf: its path joins results, or
\* its error is logged and, for the format 'pdf', raised
UnifiedAposPdf(e, pdf_path, s1, pdf) ==
    IF pdf.result.kind = "return"
    THEN [s1 EXCEPT
            !.files = pdf.files, !.attempts = pdf.attempts, !.errors = pdf.errors,
            !.results = Append(@, <<"pdf", pdf_path>>),
            !.io = @ \o (IF e.open_file /\ e.output_format = "pdf" THEN <<"open">> ELSE <<>>)]
    ELSE [s1 EXCEPT
            !.files = pdf.files, !.attempts = pdf.attempts, !.errors = pdf.errors,
            !.log = Append(@, ErrorLog(<<"Erro ao gerar PDF: ">> \o pdf.result.msg)),
            !.result = IF e.output_format = "pdf"
                       THEN UnifiedDocumentError(<<"Erro ao gerar PDF: ">> \o pdf.result.msg)
                       ELSE NoResult]

UnifiedPasso2(e, pdf_path, s1) ==
    IF e.output_format \notin {"pdf", "all"} THEN s1
    ELSE UnifiedAposPdf(e, pdf_path, s1, ConvertHtmlToPdf(pdf_path, "", e.backends, s1.files))

\* PASSO 3, after convert_html_to_docx ended as docx
UnifiedAposDocx(e, docx_path, s2, docx) ==
    IF docx.ok
    THEN [s2 EXCEPT
            !.files = docx.files,
            !.results = Append(@, <<"docx", docx_path>>),
            !.io = @ \o (IF e.open_file /\ e.output_format = "docx" THEN <<"open">> ELSE <<>>)]
    ELSE [s2 EXCEPT
            !.log = Append(@, ErrorLog(<<"Erro ao gerar DOCX: ">> \o docx.msg)),
            !.result = IF e.output_format = "docx"
                       THEN UnifiedDocumentError(<<"Erro ao gerar DOCX: ">> \o docx.msg)
                       ELSE NoResult]

UnifiedPasso3(e, docx_path, s2) ==
    IF e.output_format \notin {"docx", "all"} \/ s2.result.kind = "raise" THEN s2
    ELSE UnifiedAposDocx(e, docx_path, s2, ConvertHtmlToDocx(docx_path, e.docx, s2.files))

\* the end of the try block: `if not results: raise`, else `return results`
UnifiedVerificar(s3) ==
    IF s3.result.kind = "raise" THEN s3
    ELSE IF s3.results = <<>>
    THEN [s3 EXCEPT !.result = UnifiedDocumentError(<<"Nenhum arquivo foi gerado">>)]
    ELSE [s3 EXCEPT !.result = [kind |-> "return", value |-> s3.results]]

\* generate_document_unified(data, output_format, open_file=...) in the
\* environment e; results is the dict it returns, as its items format, path
GenerateDocumentUnified(d, e) ==
    IF e.output_format \notin valid_formats
    THEN [UnifiedStart(e) EXCEPT !.result =
            UnifiedDocumentError(<<"Formato inválido '", e.output_format,
                                   "'. Use: html, pdf, docx, all">>)]
    ELSE IF ~e.dir_ok
    THEN [UnifiedStart(e) EXCEPT
            !.io = <<"mkdir">>,
            !.log = Append(@, ErrorLog(<<"Erro inesperado ao gerar documento: ",
                                         "[Errno 13] Permission denied">>)),
            !.result = UnifiedDocumentError(<<"Erro inesperado: ",
                                              "[Errno 13] Permission denied">>)]
    ELSE UnifiedVerificar(
            UnifiedPasso3(e, BaseFilename(d) \o <<".","d","o","c","x">>,
                UnifiedPasso2(e, BaseFilename(d) \o <<".","p","d","f">>,
                    UnifiedPasso1(d, e))))

\* the record test_html_generation.py passes: the fields are nested under
\* paciente / atestado / medico, so every flat field is absent
NestedRecord ==
    [paciente |-> <<"A","n","a">>, atestado |-> <<"3">>, medico |-> <<"R","i","t","a">>]

\* the records generate_document_unified is called with: the complete record,
\* the records with one field removed or blank, and the nested record
UnifiedRecords ==
    {BaseRecord, NestedRecord}
    \cup {Without(BaseRecord, f) : f \in Fields}
    \cup {[BaseRecord EXCEPT ![f] = <<" ">>] : f \in Fields}

\* which PDF backends are installed and working
UnifiedBackends ==
    { [WeasyPrint |-> "ok", pdfkit |-> "ok", xhtml2pdf |-> "ok"],
      [WeasyPrint |-> "not_installed", pdfkit |-> "error", xhtml2pdf |-> "ok"],
      [WeasyPrint |-> "not_installed", pdfkit |-> "not_installed", xhtml2pdf |-> "pisa_err"] }

\* the environments of a call: the output_format and open_file arguments,
\* whether the output directory can be created, and what the converters do
UnifiedEnvs ==
    [kind : {"unified"}, output_format : valid_formats \cup {"txt"},
     open_file : BOOLEAN, dir_ok : BOOLEAN,
     backends : UnifiedBackends, docx : {"ok", "fail"}]

(* Specification SpecUnified: one call of generate_document_unified *)

InitUnified ==
    /\ data \in UnifiedRecords
    /\ env \in UnifiedEnvs
    /\ template = NoTemplate
    /\ replacements = <<>>
    /\ document = NoDocument
    /\ snapshots = <<>>
    /\ pc = "call"
    /\ result = NoResult
    /\ files = {}
    /\ log = <<>>
    /\ io = <<>>
    /\ attempts = <<>>
    /\ errors = <<>>
    /\ db = NoDb
    /\ _LOGO_CACHE = None

GenerateDocumentUnifiedCall ==
    /\ pc = "call"
    /\ LET out == GenerateDocumentUnified(data, env)
       IN  /\ result' = out.result
           /\ files' = out.files
           /\ io' = out.io
           /\ log' = out.log
           /\ attempts' = out.attempts
           /\ errors' = out.errors
           /\ document' = [html |-> out.html]
    /\ pc' = "done"
    /\ UNCHANGED <<data, template, replacements, snapshots, env, db, _LOGO_CACHE>>

NextUnified == GenerateDocumentUnifiedCall

SpecUnified == InitUnified /\ [][NextUnified]_vars

-----------------------------------------------------------------------------
(* generate_pdf_direct and its two converters (core/pdf_generator.py) *)

\* What docx2pdf's convert does for convert_docx_to_pdf_com: "ok" writes the
\* PDF, "no_output" returns without writing it, "not_installed" ImportError,
\* "error" convert raises (no Word installed, COM failure)
ComBehaviours == {"ok", "no_output", "not_installed", "error"}

\* What convert_docx_to_pdf_reportlab does: "ok" builds the PDF,
\* "not_installed" ImportError, "error" any exception while building
ReportlabBehaviours == {"ok", "not_installed", "error"}

\* str(e) of the exception a converter raises
ConverterReason(name, behaviour) ==
    IF behaviour = "not_installed" THEN <<"No module named '", name, "'">>
    ELSE <<name, " conversion failed">>

\* str(Path(docx_path).with_suffix('.pdf'))
WithSuffixPdf(docx_path) ==
    SubSeq(docx_path, 1, Len(docx_path) - Len(DOCUMENT_EXTENSION)) \o <<".","p","d","f">>

\* convert_docx_to_pdf_com(docx_path): returns pdf_path as soon as convert
\* returns, whether or not the file was written
ConvertDocxToPdfCom(docx_path, behaviour, fs) ==
    IF behaviour = "ok"
    THEN [ok |-> TRUE, msg |-> <<>>, files |-> fs \cup {WithSuffixPdf(docx_path)}]
    ELSE IF behaviour = "no_output"
    THEN [ok |-> TRUE, msg |-> <<>>, files |-> fs]
    ELSE [ok |-> FALSE, msg |-> ConverterReason("docx2pdf", behaviour), files |-> fs]

\* convert_docx_to_pdf_reportlab(docx_path)
ConvertDocxToPdfReportlab(docx_path, behaviour, fs) ==
    IF behaviour = "ok"
    THEN [ok |-> TRUE, msg |-> <<>>, files |-> fs \cup {WithSuffixPdf(docx_path)}]
    ELSE [ok |-> FALSE, msg |-> ConverterReason("reportlab", behaviour), files |-> fs]

\* what generate_pdf_direct raises
PDFGenerationError(msg) == [kind |-> "raise", type |-> "PDFGenerationError", msg |-> msg]

WarningLog(msg) == [level |-> "warning", msg |-> msg]

\* the fallback of generate_pdf_direct, after docx2pdf failed with com
PdfDirectReportlab(gen, docx_path, com, rl) ==
    [gen EXCEPT
        !.files = rl.files,
        !.attempts = <<"docx2pdf", "reportlab">>,
        !.log = @ \o <<WarningLog(<<"docx2pdf falhou (tentando reportlab): ">> \o com.msg)>>
                  \o (IF rl.ok THEN <<>>
                      ELSE <<ErrorLog(<<"Todas conversões falharam: ">> \o rl.msg)>>),
        !.result = IF rl.ok THEN [kind |-> "return", value |-> WithSuffixPdf(docx_path)]
                   ELSE PDFGenerationError(<<"Não foi possível converter para PDF: ">> \o rl.msg)]

\* step 2 of generate_pdf_direct, after convert_docx_to_pdf_com ended as com
PdfDirectConvert(gen, docx_path, com, e) ==
    IF com.ok
    THEN [gen EXCEPT !.files = com.files, !.attempts = <<"docx2pdf">>,
                     !.result = [kind |-> "return", value |-> WithSuffixPdf(docx_path)]]
    ELSE PdfDirectReportlab(gen, docx_path, com,
                            ConvertDocxToPdfReportlab(docx_path, e.reportlab, com.files))

\* the outcome gen of generate_document as the state of generate_pdf_direct:
\* no converter has been attempted yet
PdfDirectStart(gen) ==
    [result |-> gen.result, files |-> gen.files, io |-> gen.io, log |-> gen.log,
     document |-> gen.document, replacements |-> gen.replacements,
     snapshots |-> gen.snapshots, attempts |-> <<>>]

\* generate_pdf_direct after generate_document ended as gen
PdfDirectAfterDocx(gen, e) ==
    IF gen.result.kind = "raise"
    THEN [PdfDirectStart(gen) EXCEPT
            !.log = Append(@, ErrorLog(<<"Erro ao gerar PDF: ">> \o gen.result.msg)),
            !.result = PDFGenerationError(<<"Erro ao gerar PDF: ">> \o gen.result.msg)]
    ELSE IF gen.result.value \notin gen.files
    THEN [PdfDirectStart(gen) EXCEPT
            !.result = PDFGenerationError(<<"Falha ao gerar documento Word">>)]
    ELSE PdfDirectConvert(PdfDirectStart(gen), gen.result.value,
                          ConvertDocxToPdfCom(gen.result.value, e.docx2pdf, gen.files), e)

\* generate_pdf_direct(data) in the environment e, with the template file t
GeneratePdfDirect(d, t, e) == PdfDirectAfterDocx(GenerateDocumentOutcome(d, t, e), e)

\* the records generate_pdf_direct is called with
PdfDirectRecords ==
    {BaseRecord, Without(BaseRecord, "nome_medico"),
     [BaseRecord EXCEPT !["nome_paciente"] = <<"J",".","R","."," ","S","á">>]}

\* the environments of a call: those of generate_document, and what each of
\* the two converters does
PdfDirectEnvs ==
    [kind : {"pdf_direct"}, template : {"ok", "missing", "corrupt"},
     save_ok : BOOLEAN, production : BOOLEAN,
     docx2pdf : ComBehaviours, reportlab : ReportlabBehaviours]

(* Specification SpecPdfDirect: one call of generate_pdf_direct *)

InitPdfDirect ==
    /\ data \in PdfDirectRecords
    /\ template = GenTemplate
    /\ env \in PdfDirectEnvs
    /\ replacements = <<>>
    /\ document = NoDocument
    /\ snapshots = <<>>
    /\ pc = "call"
    /\ result = NoResult
    /\ files = {}
    /\ log = <<>>
    /\ io = <<>>
    /\ attempts = <<>>
    /\ errors = <<>>
    /\ db = NoDb
    /\ _LOGO_CACHE = None

GeneratePdfDirectCall ==
    /\ pc = "call"
    /\ LET out == GeneratePdfDirect(data, template, env)
       IN  /\ result' = out.result
           /\ files' = out.files
           /\ io' = out.io
           /\ log' = out.log
           /\ document' = out.document
           /\ replacements' = out.replacements
           /\ snapshots' = out.snapshots
           /\ attempts' = out.attempts
    /\ pc' = "done"
    /\ UNCHANGED <<data, template, env, errors, db, _LOGO_CACHE>>

NextPdfDirect == GeneratePdfDirectCall

SpecPdfDirect == InitPdfDirect /\ [][NextPdfDirect]_vars

-----------------------------------------------------------------------------
(* The replacement values the two generators build from one record *)

\* names a doctor is registered with: with and without a title, and first
\* names that begin with the letters of a title
DoctorNames ==
    { <<"D","r","a","."," ","R","i","t","a"," ","L","u","z">>,
      <<"D","r","."," ","I","v","o"," ","S","á">>,
      <<"R","i","t","a"," ","L","u","z">>,
      <<"D","r","a","u","z","i","o"," ","R","e","i","s">>,
      <<"P","R","O","F","."," ","A","n","a"," ","R","e","i","s">>,
      <<"S","r"," ","G","i","l">>,
      <<"D","r","(","a",")","."," ","L","i","a">>,
      <<" ","m","e","d","."," ","I","v","o">> }

\* certificate dates as the callers send them: dd/mm/yyyy, ISO, padded, dashed
AtestadoDates ==
    { <<"1","0","/","1","1","/","2","0","2","5">>,
      <<"2","0","2","5","-","1","1","-","1","0">>,
      <<" ","1","0","/","1","1","/","2","0","2","5"," ">>,
      <<"1","0","-","1","1","-","2","0","2","5">> }

\* valid records that differ in the doctor's name, the date and the registry
ValueRecords ==
    { [BaseRecord EXCEPT !["nome_medico"] = n, !["data_atestado"] = dt,
                         !["tipo_registro_medico"] = tp, !["crm__medico"] = crm] :
        n \in DoctorNames, dt \in AtestadoDates,
        tp \in {<<"C","R","M">>, <<>>}, crm \in {<<"4","5","6","7">>, <<>>} }

(* Specification SpecValues: both generators prepare their replacements *)

InitValues ==
    /\ data \in ValueRecords
    /\ env = NoEnv
    /\ template = NoTemplate
    /\ replacements = <<>>
    /\ document = NoDocument
    /\ snapshots = <<>>
    /\ pc = "call"
    /\ result = NoResult
    /\ files = {}
    /\ log = <<>>
    /\ io = <<>>
    /\ attempts = <<>>
    /\ errors = <<>>
    /\ db = NoDb
    /\ _LOGO_CACHE = None

\* generate_document and generate_html each build their dict from data
PrepararSubstituicoes ==
    /\ pc = "call"
    /\ replacements' = BuildReplacements(data, Hoje)
    /\ document' = [html_replacements |-> HtmlReplacements(data, LogoBase64)]
    /\ pc' = "done"
    /\ UNCHANGED <<data, env, template, snapshots, result, files, log, io, attempts, errors, db, _LOGO_CACHE>>

NextValues == PrepararSubstituicoes

SpecValues == InitValues /\ [][NextValues]_vars

-----------------------------------------------------------------------------
(* encode_image_to_base64 and its cache (core/html_generator.py) *)

\* the alphabet of base64.b64encode
Base64Alphabet ==
    <<"A","B","C","D","E","F","G","H","I","J","K","L","M","N","O","P","Q","R","S","T","U","V","W","X","Y","Z",
      "a","b","c","d","e","f","g","h","i","j","k","l","m","n","o","p","q","r","s","t","u","v","w","x","y","z",
      "0","1","2","3","4","5","6","7","8","9","+","/">>

\* base64.b64encode(bytes).decode('utf-8'): three bytes give four characters,
\* a last group of one or two bytes is padded with '='
RECURSIVE Base64(_)
Base64(bytes) ==
    IF bytes = <<>> THEN <<>>
    ELSE IF Len(bytes) = 1
    THEN <<Base64Alphabet[(bytes[1] \div 4) + 1],
           Base64Alphabet[((bytes[1] % 4) * 16) + 1], "=", "=">>
    ELSE IF Len(bytes) = 2
    THEN <<Base64Alphabet[(bytes[1] \div 4) + 1],
           Base64Alphabet[((bytes[1] % 4) * 16) + (bytes[2] \div 16) + 1],
           Base64Alphabet[((bytes[2] % 16) * 4) + 1], "=">>
    ELSE <<Base64Alphabet[(bytes[1] \div 4) + 1],
           Base64Alphabet[((bytes[1] % 4) * 16) + (bytes[2] \div 16) + 1],
           Base64Alphabet[((bytes[2] % 16) * 4) + (bytes[3] \div 64) + 1],
           Base64Alphabet[(bytes[3] % 64) + 1]>>
         \o Base64(SubSeq(bytes, 4, Len(bytes)))

\* Path(image_path).suffix.lower(): from the last dot on
SuffixLower(image_path) ==
    LET dots == {i \in 2..Len(image_path) : image_path[i] = "."}
    IN  IF dots = {} THEN <<>>
        ELSE Lower(SubSeq(image_path, CHOOSE i \in dots : \A j \in dots : j <= i,
                          Len(image_path)))

\* mime_types.get(ext, 'image/png')
MimeOf(ext) ==
    CASE ext = <<".","p","n","g">> -> "image/png"
      [] ext = <<".","j","p","g">> -> "image/jpeg"
      [] ext = <<".","j","p","e","g">> -> "image/jpeg"
      [] ext = <<".","g","i","f">> -> "image/gif"
      [] ext = <<".","s","v","g">> -> "image/svg+xml"
      [] OTHER -> "image/png"

\* f"data:{mime};base64,{encoded}" for the bytes of the file
DataUri(image_path, bytes) ==
    <<"data:", MimeOf(SuffixLower(image_path)), ";base64,">> \o Base64(bytes)

\* encode_image_to_base64(image_path) with the cache holding cache and the
\* image files images (path -> bytes): the value returned, the cache
\* afterwards, the reads made and the records logged
EncodeImageToBase64(image_path, cache, images) ==
    IF cache # None
    THEN [value |-> cache, cache |-> cache, io |-> <<>>, log |-> <<>>]
    ELSE IF image_path \notin DOMAIN images
    THEN [value |-> None, cache |-> cache, io |-> <<>>,
          log |-> <<WarningLog(<<"Imagem não encontrada: ">> \o image_path)>>]
    ELSE [value |-> DataUri(image_path, images[image_path]),
          cache |-> DataUri(image_path, images[image_path]),
          io |-> <<"read_image">>, log |-> <<>>]

\* the paths the function is called with
ImagePaths ==
    { <<"l","o","g","o",".","p","n","g">>, <<"f","o","t","o",".","J","P","G">>,
      <<"s","e","l","o">>, <<"n","a","d","a",".","p","n","g">> }

\* the image files on disk: two or three of the paths exist, with the first
\* bytes of a PNG, a JPEG and a GIF file
ImageDisks ==
    { (<<"l","o","g","o",".","p","n","g">> :> <<137, 80, 78, 71>>)
        @@ (<<"f","o","t","o",".","J","P","G">> :> <<255, 216>>),
      (<<"l","o","g","o",".","p","n","g">> :> <<137, 80, 78, 71>>)
        @@ (<<"f","o","t","o",".","J","P","G">> :> <<255, 216>>)
        @@ (<<"s","e","l","o">> :> <<71, 73, 70, 56, 57>>) }

(* Specification SpecLogo: a sequence of calls of encode_image_to_base64 *)

InitLogo ==
    /\ data = [image_path |-> <<>>]
    /\ env \in [kind : {"images"}, images : ImageDisks]
    /\ template = NoTemplate
    /\ replacements = <<>>
    /\ document = NoDocument
    /\ snapshots = <<>>
    /\ pc = "call"
    /\ result = NoResult
    /\ files = {}
    /\ log = <<>>
    /\ io = <<>>
    /\ attempts = <<>>
    /\ errors = <<>>
    /\ db = NoDb
    /\ _LOGO_CACHE = None

\* one call; attempts is the history of the paths asked for
EncodeImageToBase64Call ==
    /\ Len(attempts) < MaxCalls
    /\ \E image_path \in ImagePaths :
          LET out == EncodeImageToBase64(image_path, _LOGO_CACHE, env.images)
          IN  /\ data' = [image_path |-> image_path]
              /\ result' = [kind |-> "return", value |-> out.value]
              /\ _LOGO_CACHE' = out.cache
              /\ io' = io \o out.io
              /\ log' = log \o out.log
              /\ attempts' = Append(attempts, image_path)
    /\ pc' = "called"
    /\ UNCHANGED <<env, template, replacements, document, snapshots, files, errors, db>>

NextLogo == EncodeImageToBase64Call

SpecLogo == InitLogo /\ [][NextLogo]_vars

-----------------------------------------------------------------------------
(* The file names sanitizar_nome_arquivo is given *)

\* the character U+007F (DEL), written by its escape
DEL == "\\x7f"

\* the characters names are made of: a letter, the dot, the space, a path
\* separator, a control character below U+0020 and one above it
NameAlphabet == {"a", ".", " ", "/", "\t", DEL}

\* the varying parts: every string over the alphabet up to the bound
NameParts == UNION {[1..k -> NameAlphabet] : k \in 0..MaxNameLen}

\* n letters
Padding(n) == [i \in 1..n |-> "a"]

\* the lengths of the fixed prefix of a name and the values of max_length:
\* short names with small limits, and names about as long as the limits 18
\* and 19, so that the cut falls on every character of the varying part
NamePaddings == {0, 16}
MaxLengths == {2, 3, 18, 19, 50}

(* Specification SpecSanitizar: one call of each copy of sanitizar_nome_arquivo *)

InitSanitizar ==
    /\ data \in [padding : NamePaddings, max_length : MaxLengths, nome : {<<>>}]
    /\ env = NoEnv
    /\ template = NoTemplate
    /\ replacements = <<>>
    /\ document = NoDocument
    /\ snapshots = <<>>
    /\ pc = "call"
    /\ result = NoResult
    /\ files = {}
    /\ log = <<>>
    /\ io = <<>>
    /\ attempts = <<>>
    /\ errors = <<>>
    /\ db = NoDb
    /\ _LOGO_CACHE = None

\* both copies are called with the same name and limit, and generate_document
\* builds output_filename from the result of its copy
SanitizarNomeArquivoCall ==
    /\ pc = "call"
    /\ \E part \in NameParts :
          /\ data' = [data EXCEPT !.nome = Padding(data.padding) \o part]
          /\ result' =
                [kind |-> "return",
                 document_generator |-> SanitizarNomeArquivo(data'.nome, data.max_length),
                 unified_generator |-> UnifiedSanitizarNomeArquivo(data'.nome, data.max_length),
                 output_filename |->
                    DOCUMENT_PREFIX \o SanitizarNomeArquivo(data'.nome, data.max_length)
                        \o <<"_">> \o Agora \o DOCUMENT_EXTENSION]
    /\ pc' = "done"
    /\ UNCHANGED <<env, template, replacements, document, snapshots, files, log, io,
                   attempts, errors, db, _LOGO_CACHE>>

NextSanitizar == SanitizarNomeArquivoCall

SpecSanitizar == InitSanitizar /\ [][NextSanitizar]_vars

-----------------------------------------------------------------------------
(* The tables pacientes, medicos and atestados and the statements run on    *)
(* them (api/core/db_manager.py, core/database.py)                          *)

\* A table is the sequence of its rows in insertion order; no statement of
\* the program deletes a row, so the AUTOINCREMENT / SERIAL id of a new row
\* is the number of rows plus one. A transaction is [tables, error, io]:
\* the uncommitted tables, the message of the first statement that failed
\* (<<>> while none has), and the operations performed.

\* a control character other than \n, \r, \t
ControlChars == {"\f"}

\* sanitizar_entrada(texto)
SanitizarEntrada(texto) ==
    IF texto = <<>> THEN <<>>
    ELSE Strip(SelectSeq(texto, LAMBDA c : c \notin ControlChars))

\* ''.join(filter(str.isdigit, texto))
OnlyDigits(texto) == SelectSeq(texto, LAMBDA c : c \in Digits)

\* UNIQUE(tipo_doc, numero_doc) holds in the rows of pacientes
PacientesUnique(rows) ==
    \A i, j \in 1..Len(rows) :
        (rows[i].tipo_doc = rows[j].tipo_doc /\ rows[i].numero_doc = rows[j].numero_doc)
            => i = j

\* UNIQUE(tipo_crm, crm) holds in the rows of medicos
MedicosUnique(rows) ==
    \A i, j \in 1..Len(rows) :
        (rows[i].tipo_crm = rows[j].tipo_crm /\ rows[i].crm = rows[j].crm) => i = j

\* a statement of a transaction: skipped once a statement has failed (the
\* exception left the with block), else tables becomes new_tables unless the
\* constraint is broken, in which case the statement changes nothing and raises
Statement(tx, op, new_tables, constraint_ok, message) ==
    IF tx.error # <<>> THEN tx
    ELSE IF ~constraint_ok THEN [tx EXCEPT !.error = message]
    ELSE [tx EXCEPT !.tables = new_tables, !.io = Append(@, op)]

\* INSERT INTO pacientes (nome_completo, tipo_doc, numero_doc, cargo, empresa)
InsertPaciente(tx, nome, tipo_doc, numero_doc, cargo, empresa) ==
    Statement(tx, "insert_paciente",
        [tx.tables EXCEPT !.pacientes =
            Append(@, [id |-> Len(@) + 1, nome_completo |-> nome, tipo_doc |-> tipo_doc,
                       numero_doc |-> numero_doc, cargo |-> cargo, empresa |-> empresa])],
        \A i \in 1..Len(tx.tables.pacientes) :
            ~(tx.tables.pacientes[i].tipo_doc = tipo_doc
              /\ tx.tables.pacientes[i].numero_doc = numero_doc),
        <<"UNIQUE constraint failed: pacientes.tipo_doc, pacientes.numero_doc">>)

\* the rows of pacientes after
\* UPDATE pacientes SET nome_completo, tipo_doc, cargo, empresa WHERE numero_doc = ?
PacientesUpdatedByNumeroDoc(rows, nome, tipo_doc, numero_doc, cargo, empresa) ==
    [i \in 1..Len(rows) |->
        IF rows[i].numero_doc = numero_doc
        THEN [rows[i] EXCEPT !.nome_completo = nome, !.tipo_doc = tipo_doc,
                             !.cargo = cargo, !.empresa = empresa]
        ELSE rows[i]]

\* the UPDATE of the API endpoints: every row with that numero_doc is set
UpdatePacientesByNumeroDoc(tx, nome, tipo_doc, numero_doc, cargo, empresa) ==
    Statement(tx, "update_paciente",
        [tx.tables EXCEPT !.pacientes =
            PacientesUpdatedByNumeroDoc(@, nome, tipo_doc, numero_doc, cargo, empresa)],
        PacientesUnique(PacientesUpdatedByNumeroDoc(tx.tables.pacientes, nome, tipo_doc,
                                                    numero_doc, cargo, empresa)),
        <<"UNIQUE constraint failed: pacientes.tipo_doc, pacientes.numero_doc">>)

\* UPDATE pacientes SET nome_completo, cargo, empresa, tipo_doc, numero_doc WHERE id = ?
UpdatePacienteById(tx, id, nome, tipo_doc, numero_doc, cargo, empresa) ==
    Statement(tx, "update_paciente",
        [tx.tables EXCEPT !.pacientes[id] =
            [@ EXCEPT !.nome_completo = nome, !.tipo_doc = tipo_doc,
                      !.numero_doc = numero_doc, !.cargo = cargo, !.empresa = empresa]],
        TRUE, <<>>)

\* INSERT INTO medicos (nome_completo, tipo_crm, crm, uf_crm)
InsertMedico(tx, nome, tipo_crm, crm, uf_crm) ==
    Statement(tx, "insert_medico",
        [tx.tables EXCEPT !.medicos =
            Append(@, [id |-> Len(@) + 1, nome_completo |-> nome, tipo_crm |-> tipo_crm,
                       crm |-> crm, uf_crm |-> uf_crm])],
        \A i \in 1..Len(tx.tables.medicos) :
            ~(tx.tables.medicos[i].tipo_crm = tipo_crm /\ tx.tables.medicos[i].crm = crm),
        <<"UNIQUE constraint failed: medicos.tipo_crm, medicos.crm">>)

\* UPDATE medicos SET nome_completo, uf_crm WHERE crm = ? AND tipo_crm = ?
\* (the desktop addresses the same row by the id it selected with that pair)
UpdateMedico(tx, nome, tipo_crm, crm, uf_crm) ==
    Statement(tx, "update_medico",
        [tx.tables EXCEPT !.medicos =
            [i \in 1..Len(@) |->
                IF @[i].crm = crm /\ @[i].tipo_crm = tipo_crm
                THEN [@[i] EXCEPT !.nome_completo = nome, !.uf_crm = uf_crm]
                ELSE @[i]]],
        TRUE, <<>>)

\* (SELECT id FROM pacientes WHERE tipo_doc = ? AND numero_doc = ?), 0 for NULL
PacienteId(rows, tipo_doc, numero_doc) ==
    LET found == {i \in 1..Len(rows) :
                     rows[i].tipo_doc = tipo_doc /\ rows[i].numero_doc = numero_doc}
    IN  IF found = {} THEN 0 ELSE rows[CHOOSE i \in found : TRUE].id

\* (SELECT id FROM medicos WHERE tipo_crm = ? AND crm = ?), 0 for NULL
MedicoId(rows, tipo_crm, crm) ==
    LET found == {i \in 1..Len(rows) : rows[i].tipo_crm = tipo_crm /\ rows[i].crm = crm}
    IN  IF found = {} THEN 0 ELSE rows[CHOOSE i \in found : TRUE].id

\* INSERT INTO atestados (...): paciente_id and medico_id NOT NULL,
\* CHECK(qtd_dias_atestado > 0)
InsertAtestado(tx, paciente_id, medico_id, data_atestado, qtd_dias, codigo_cid, hoje) ==
    Statement(tx, "insert_atestado",
        [tx.tables EXCEPT !.atestados =
            Append(@, [id |-> Len(@) + 1, paciente_id |-> paciente_id,
                       medico_id |-> medico_id, data_atestado |-> data_atestado,
                       qtd_dias_atestado |-> qtd_dias, codigo_cid |-> codigo_cid,
                       data_homologacao |-> hoje])],
        paciente_id # 0 /\ medico_id # 0 /\ qtd_dias > 0,
        IF qtd_dias > 0 THEN <<"NOT NULL constraint failed: atestados.paciente_id">>
        ELSE <<"CHECK constraint failed: qtd_dias_atestado > 0">>)

\* the transaction a connection starts with: nothing done yet, or the error
\* the environment injects when the connection cannot be opened
BeginTx(e, tables) ==
    [tables |-> tables, io |-> <<"db_connect">>,
     error |-> IF e.db = "connect_error" THEN <<"unable to open database file">> ELSE <<>>]

\* the first statement of a with block, which fails when the environment
\* makes statements fail
FirstStatement(e, tx) ==
    IF tx.error = <<>> /\ e.db = "execute_error"
    THEN [tx EXCEPT !.error = <<"no such table: pacientes">>]
    ELSE tx

\* conn.commit(), which fails when the environment makes commits fail
Commit(e, tx) ==
    IF tx.error # <<>> THEN tx
    ELSE IF e.db = "commit_error" THEN [tx EXCEPT !.error = <<"database is locked">>]
    ELSE [tx EXCEPT !.io = Append(@, "db_commit")]

\* the rows visible after the connection is closed: those of the transaction
\* when it committed; otherwise the rows from before, by the rollback of
\* db_manager.get_db_connection or, in core/database.py, by closing the
\* connection with the transaction open
Committed(tables, tx) == IF tx.error = <<>> THEN tx.tables ELSE tables

\* the patient part of the save of the API endpoints: the row is looked up
\* by numero_doc alone
ApiSalvarPaciente(tx, req) ==
    IF \E i \in 1..Len(tx.tables.pacientes) :
          tx.tables.pacientes[i].numero_doc = SanitizarEntrada(req.paciente.numero_documento)
    THEN UpdatePacientesByNumeroDoc(tx,
            SanitizarEntrada(req.paciente.nome),
            SanitizarEntrada(req.paciente.tipo_documento),
            SanitizarEntrada(req.paciente.numero_documento),
            SanitizarEntrada(req.paciente.cargo),
            SanitizarEntrada(req.paciente.empresa))
    ELSE InsertPaciente(tx,
            SanitizarEntrada(req.paciente.nome),
            SanitizarEntrada(req.paciente.tipo_documento),
            SanitizarEntrada(req.paciente.numero_documento),
            SanitizarEntrada(req.paciente.cargo),
            SanitizarEntrada(req.paciente.empresa))

\* the doctor part of the save of generate_document_endpoint and
\* generate_pdf_endpoint
ApiSalvarMedico(tx, req) ==
    IF MedicoId(tx.tables.medicos, SanitizarEntrada(req.medico.tipo_registro),
                SanitizarEntrada(req.medico.numero_registro)) # 0
    THEN UpdateMedico(tx,
            SanitizarEntrada(req.medico.nome),
            SanitizarEntrada(req.medico.tipo_registro),
            SanitizarEntrada(req.medico.numero_registro),
            SanitizarEntrada(req.medico.uf_registro))
    ELSE InsertMedico(tx,
            SanitizarEntrada(req.medico.nome),
            SanitizarEntrada(req.medico.tipo_registro),
            SanitizarEntrada(req.medico.numero_registro),
            SanitizarEntrada(req.medico.uf_registro))

\* the doctor part of the save of generate_html_endpoint: its SELECT names the
\* columns numero_registro and uf, which the table medicos of create_tables
\* (tipo_crm, crm, uf_crm) does not have, so the statement raises
HtmlSalvarMedico(tx, req) ==
    Statement(tx, "select_medico", tx.tables, FALSE,
              <<"column \"numero_registro\" does not exist">>)

\* What the database does during a save: "ok", "connect_error" the
\* connection cannot be opened, "execute_error" the first statement fails,
\* "commit_error" the commit fails
DbBehaviours == {"ok", "connect_error", "execute_error", "commit_error"}

\* os.getenv('RENDER') or os.getenv('RAILWAY_ENVIRONMENT')
IsPostgres(e) == e.platform = "RENDER"

-----------------------------------------------------------------------------
(* The generation endpoints of the API (backend/main.py) *)

\* str(n) of a non-negative int
RECURSIVE StrInt(_)
StrInt(n) ==
    IF n < 10 THEN <<(<<"0","1","2","3","4","5","6","7","8","9">>)[n + 1]>>
    ELSE StrInt(n \div 10) \o StrInt(n % 10)

\* the text the endpoints put in place of the CID
NaoInformado == <<"N","ã","o"," ","I","n","f","o","r","m","a","d","o">>

\* documento_data of generate_document_endpoint
DocumentoData(req) ==
    [nome_paciente |-> req.paciente.nome,
     tipo_doc_paciente |-> req.paciente.tipo_documento,
     numero_doc_paciente |-> req.paciente.numero_documento,
     cargo_paciente |-> req.paciente.cargo,
     empresa_paciente |-> req.paciente.empresa,
     data_atestado |-> req.atestado.data_atestado,
     qtd_dias_atestado |-> StrInt(req.atestado.dias_afastamento),
     codigo_cid |-> IF ~req.atestado.cid_nao_informado THEN req.atestado.cid
                    ELSE NaoInformado,
     nome_medico |-> req.medico.nome,
     tipo_registro_medico |-> req.medico.tipo_registro,
     crm__medico |-> req.medico.numero_registro,
     uf_crm_medico |-> req.medico.uf_registro]

\* documento_data of generate_pdf_endpoint: the same dict, built again
DocumentoDataPdf(req) ==
    [nome_paciente |-> req.paciente.nome,
     tipo_doc_paciente |-> req.paciente.tipo_documento,
     numero_doc_paciente |-> req.paciente.numero_documento,
     cargo_paciente |-> req.paciente.cargo,
     empresa_paciente |-> req.paciente.empresa,
     data_atestado |-> req.atestado.data_atestado,
     qtd_dias_atestado |-> StrInt(req.atestado.dias_afastamento),
     codigo_cid |-> IF ~req.atestado.cid_nao_informado THEN req.atestado.cid
                    ELSE NaoInformado,
     nome_medico |-> req.medico.nome,
     tipo_registro_medico |-> req.medico.tipo_registro,
     crm__medico |-> req.medico.numero_registro,
     uf_crm_medico |-> req.medico.uf_registro]

\* documento_data of generate_html_endpoint: the code and the flag are passed
\* side by side; the number of days stays an int until generate_html calls
\* str() on it, which is applied here
DocumentoDataHtml(req) ==
    [nome_paciente |-> req.paciente.nome,
     tipo_doc_paciente |-> req.paciente.tipo_documento,
     numero_doc_paciente |-> req.paciente.numero_documento,
     cargo_paciente |-> req.paciente.cargo,
     empresa_paciente |-> req.paciente.empresa,
     data_atestado |-> req.atestado.data_atestado,
     qtd_dias_atestado |-> StrInt(req.atestado.dias_afastamento),
     codigo_cid |-> req.atestado.cid,
     cid_nao_informado |-> req.atestado.cid_nao_informado,
     nome_medico |-> req.medico.nome,
     tipo_registro_medico |-> req.medico.tipo_registro,
     crm__medico |-> req.medico.numero_registro,
     uf_crm_medico |-> req.medico.uf_registro]

\* what get_db_connection logs before it re-raises
DbManagerLog(e, reason) ==
    ErrorLog((IF IsPostgres(e) THEN <<"Erro no banco PostgreSQL: ">>
              ELSE <<"Erro no banco SQLite: ">>) \o reason)

\* the with block of the inner try of an endpoint, on the committed rows
\* tables: the patient and the doctor are inserted or updated and the
\* transaction committed. generate_html_endpoint has statements for
\* PostgreSQL only; for SQLite its block is empty and get_db_connection commits
ApiTx(endpoint, req, e, tables) ==
    IF endpoint # "/api/generate-html"
    THEN Commit(e, ApiSalvarMedico(ApiSalvarPaciente(FirstStatement(e, BeginTx(e, tables)), req), req))
    ELSE IF IsPostgres(e)
    THEN Commit(e, HtmlSalvarMedico(ApiSalvarPaciente(FirstStatement(e, BeginTx(e, tables)), req), req))
    ELSE Commit(e, BeginTx(e, tables))

\* how the inner try ends for the transaction tx: caught is whether its
\* `except Exception` is there
SaveOutcome(tx, e, tables, caught) ==
    [ok |-> tx.error = <<>>,
     raised |-> tx.error # <<>> /\ ~caught,
     reason |-> tx.error,
     db |-> Committed(tables, tx),
     io |-> tx.io \o (IF tx.error = <<>> \/ (e.db = "connect_error" /\ ~IsPostgres(e))
                      THEN <<>> ELSE <<"db_rollback">>),
     log |-> IF tx.error = <<>> THEN <<>>
             ELSE <<DbManagerLog(e, tx.error)>>
                  \o (IF caught
                      THEN <<WarningLog(<<"Erro ao salvar no banco (continuando): ">> \o tx.error)>>
                      ELSE <<>>)]

\* variant of SalvarNoBanco: the error of the save is not caught
SalvarNoBancoSemExcept(endpoint, req, e, tables) ==
    SaveOutcome(ApiTx(endpoint, req, e, tables), e, tables, FALSE)

\* the inner try block of an endpoint: any exception of the save is logged as
\* a warning and the endpoint goes on
SalvarNoBanco(endpoint, req, e, tables) ==
    SaveOutcome(ApiTx(endpoint, req, e, tables), e, tables, TRUE)

\* what an endpoint answers
HTTPException(status_code, detail) ==
    [kind |-> "http", status |-> status_code, detail |-> detail]
FileResponse(path, media_type) ==
    [kind |-> "http", status |-> 200, path |-> path, media_type |-> media_type]
HTMLResponse(content) ==
    [kind |-> "http", status |-> 200, content |-> content]

\* an endpoint whose save raised: the outer handler answers 500
EndpointDbFailure(prefix, save) ==
    [result |-> HTTPException(500, prefix \o save.reason),
     files |-> {}, io |-> save.io, replacements |-> <<>>, html |-> <<>>,
     db |-> save.db,
     log |-> save.log \o <<ErrorLog(prefix \o save.reason)>>]

\* the environment of generate_document and generate_pdf_direct under the API
GenEnvOf(e) ==
    [kind |-> "gen", template |-> e.template, save_ok |-> e.save_ok,
     production |-> e.platform # "none",
     docx2pdf |-> e.docx2pdf, reportlab |-> e.reportlab]

\* the environment of generate_document_unified(documento_data, output_format='html')
UnifiedEnvOf(e) ==
    [kind |-> "unified", output_format |-> "html", open_file |-> TRUE,
     dir_ok |-> e.dir_ok,
     backends |-> [WeasyPrint |-> "ok", pdfkit |-> "ok", xhtml2pdf |-> "ok"],
     docx |-> "ok"]

\* generate_document_endpoint after the save ended as save and generate_document as gen
DocumentEndpointAfter(save, gen) ==
    [result |->
        IF gen.result.kind = "raise"
        THEN HTTPException(500, <<"Erro ao gerar documento: ">> \o gen.result.msg)
        ELSE IF gen.result.value \notin gen.files
        THEN HTTPException(500, <<"Erro ao gerar documento: ", "HTTPException">>)
        ELSE FileResponse(gen.result.value,
                "application/vnd.openxmlformats-officedocument.wordprocessingml.document"),
     files |-> gen.files, db |-> save.db, io |-> save.io \o gen.io,
     replacements |-> gen.replacements, html |-> <<>>,
     log |-> <<Info(<<"Recebendo requisição para gerar documento">>)>> \o save.log \o gen.log
             \o (IF gen.result.kind = "raise"
                 THEN <<ErrorLog(<<"Erro ao gerar documento: ">> \o gen.result.msg)>>
                 ELSE <<Info(<<"Documento gerado: ", "caminho_documento">>)>>)]

\* POST /api/generate-document
GenerateDocumentEndpointOutcome(req, e, tables) ==
    IF SalvarNoBanco("/api/generate-document", req, e, tables).raised
    THEN EndpointDbFailure(<<"Erro ao gerar documento: ">>,
                           SalvarNoBanco("/api/generate-document", req, e, tables))
    ELSE DocumentEndpointAfter(SalvarNoBanco("/api/generate-document", req, e, tables),
            GenerateDocumentOutcome(DocumentoData(req), GenTemplate, GenEnvOf(e)))

\* generate_html_endpoint after the save ended as save and generate_document_unified as gen
HtmlEndpointAfter(save, gen) ==
    [result |->
        IF gen.result.kind = "raise"
        THEN HTTPException(500, <<"Erro ao gerar HTML: ">> \o gen.result.msg)
        ELSE IF "html" \notin {gen.result.value[i][1] : i \in 1..Len(gen.result.value)}
        THEN HTTPException(500, <<"Erro ao gerar HTML: ", "HTTPException">>)
        ELSE HTMLResponse(gen.html),
     files |-> gen.files, db |-> save.db, io |-> save.io \o gen.io \o <<"read_html">>,
     replacements |-> <<>>, html |-> gen.html,
     log |-> <<Info(<<"Recebendo requisição para gerar HTML">>)>> \o save.log \o gen.log
             \o (IF gen.result.kind = "raise"
                 THEN <<ErrorLog(<<"Erro ao gerar HTML: ">> \o gen.result.msg)>>
                 ELSE <<Info(<<"HTML gerado: ", "caminho_html">>)>>)]

\* POST /api/generate-html
GenerateHtmlEndpointOutcome(req, e, tables) ==
    IF SalvarNoBanco("/api/generate-html", req, e, tables).raised
    THEN EndpointDbFailure(<<"Erro ao gerar HTML: ">>,
                           SalvarNoBanco("/api/generate-html", req, e, tables))
    ELSE HtmlEndpointAfter(SalvarNoBanco("/api/generate-html", req, e, tables),
            GenerateDocumentUnified(DocumentoDataHtml(req), UnifiedEnvOf(e)))

\* generate_pdf_endpoint after the save ended as save and generate_pdf_direct as gen
PdfEndpointAfter(save, gen) ==
    [result |->
        IF gen.result.kind = "raise"
        THEN HTTPException(500, <<"Erro ao gerar PDF: ">> \o gen.result.msg)
        ELSE FileResponse(gen.result.value, "application/pdf"),
     files |-> gen.files, db |-> save.db, io |-> save.io \o gen.io,
     replacements |-> gen.replacements, html |-> <<>>,
     log |-> <<Info(<<"Recebendo requisição para gerar PDF">>)>> \o save.log \o gen.log
             \o (IF gen.result.kind = "raise"
                 THEN <<ErrorLog(<<"Erro ao gerar PDF: ">> \o gen.result.msg)>>
                 ELSE <<Info(<<"PDF gerado com sucesso: ", "caminho_pdf">>)>>)]

\* POST /api/generate-pdf
GeneratePdfEndpointOutcome(req, e, tables) ==
    IF SalvarNoBanco("/api/generate-pdf", req, e, tables).raised
    THEN EndpointDbFailure(<<"Erro ao gerar PDF: ">>,
                           SalvarNoBanco("/api/generate-pdf", req, e, tables))
    ELSE PdfEndpointAfter(SalvarNoBanco("/api/generate-pdf", req, e, tables),
            GeneratePdfDirect(DocumentoDataPdf(req), GenTemplate, GenEnvOf(e)))

\* the requests the endpoints receive: DocumentoRequest bodies that differ in
\* the patient's name, the number of days, the CID code and the flag
ApiRequests ==
    { [paciente |-> [nome |-> n, tipo_documento |-> <<"c","p","f">>,
                     numero_documento |-> <<"1","2","3">>,
                     cargo |-> <<"A","n","a","l","i","s","t","a">>,
                     empresa |-> <<"A","c","m","e">>],
       atestado |-> [data_atestado |-> <<"1","0","/","1","1","/","2","0","2","5">>,
                     dias_afastamento |-> dias, cid |-> cid, cid_nao_informado |-> flag],
       medico |-> [nome |-> <<"D","r","a","."," ","R","i","t","a"," ","L","u","z">>,
                   tipo_registro |-> <<"C","R","M">>,
                   numero_registro |-> <<"4","5","6","7">>,
                   uf_registro |-> <<"D","F">>]] :
        n \in {<<"A","n","a"," ","L","i","m","a">>, <<>>},
        dias \in {3, 15},
        cid \in {<<"J","0","6",".","9">>, <<"A","0","0">>},
        flag \in BOOLEAN }

\* what the generators meet: everything works, the template is missing, the
\* output cannot be saved, the PDF converters fail one by one, the output
\* directory cannot be created
GenScenarios ==
    { [template |-> "ok", save_ok |-> TRUE, docx2pdf |-> "ok", reportlab |-> "ok", dir_ok |-> TRUE],
      [template |-> "missing", save_ok |-> TRUE, docx2pdf |-> "ok", reportlab |-> "ok", dir_ok |-> TRUE],
      [template |-> "ok", save_ok |-> FALSE, docx2pdf |-> "ok", reportlab |-> "ok", dir_ok |-> FALSE],
      [template |-> "ok", save_ok |-> TRUE, docx2pdf |-> "error", reportlab |-> "ok", dir_ok |-> TRUE],
      [template |-> "ok", save_ok |-> TRUE, docx2pdf |-> "not_installed", reportlab |-> "error", dir_ok |-> TRUE] }

\* the environments of a request: which platform variable is set, what the
\* database does, and what the generators meet
ApiEnvs ==
    { [kind |-> "api", platform |-> p, db |-> b,
       template |-> s.template, save_ok |-> s.save_ok, docx2pdf |-> s.docx2pdf,
       reportlab |-> s.reportlab, dir_ok |-> s.dir_ok] :
        p \in {"RENDER", "VERCEL", "none"}, b \in DbBehaviours, s \in GenScenarios }

(* Specification SpecApi: one request to one of the generation endpoints *)

InitApi ==
    /\ data \in ApiRequests
    /\ env \in ApiEnvs
    /\ template = GenTemplate
    /\ replacements = <<>>
    /\ document = NoDocument
    /\ snapshots = <<>>
    /\ pc = "request"
    /\ result = NoResult
    /\ files = {}
    /\ log = <<>>
    /\ io = <<>>
    /\ attempts = <<>>
    /\ errors = <<>>
    /\ db = NoDb
    /\ _LOGO_CACHE = None

\* the state an endpoint leaves behind: result is its HTTP response,
\* replacements the dict the DOCX generator substituted with, document the
\* HTML that was rendered
EndpointStep(endpoint, out) ==
    /\ pc = "request"
    /\ result' = [endpoint |-> endpoint, response |-> out.result]
    /\ files' = out.files
    /\ io' = out.io
    /\ log' = out.log
    /\ replacements' = out.replacements
    /\ document' = [html |-> out.html]
    /\ db' = out.db
    /\ pc' = "done"
    /\ UNCHANGED <<data, env, template, snapshots, attempts, errors, _LOGO_CACHE>>

GenerateDocumentEndpoint ==
    EndpointStep("/api/generate-document", GenerateDocumentEndpointOutcome(data, env, db))

GenerateHtmlEndpoint ==
    EndpointStep("/api/generate-html", GenerateHtmlEndpointOutcome(data, env, db))

GeneratePdfEndpoint ==
    EndpointStep("/api/generate-pdf", GeneratePdfEndpointOutcome(data, env, db))

NextApi == GenerateDocumentEndpoint \/ GenerateHtmlEndpoint \/ GeneratePdfEndpoint

SpecApi == InitApi /\ [][NextApi]_vars

-----------------------------------------------------------------------------
(* save_or_update_data of the desktop window (ui/main_window.py) *)

\* the with block of save_or_update_data on the committed rows tables: the
\* patient is selected by (tipo_doc, digits of numero_doc) and updated by id
\* or inserted, the doctor by (tipo_crm, crm), then the atestado is inserted
\* with the ids selected by those pairs, then conn.commit()
SaveOrUpdateDataPaciente(tx, d) ==
    IF PacienteId(tx.tables.pacientes, d.tipo_doc_paciente,
                  OnlyDigits(d.numero_doc_paciente)) # 0
    THEN UpdatePacienteById(tx,
            PacienteId(tx.tables.pacientes, d.tipo_doc_paciente,
                       OnlyDigits(d.numero_doc_paciente)),
            d.nome_paciente, d.tipo_doc_paciente, OnlyDigits(d.numero_doc_paciente),
            d.cargo_paciente, d.empresa_paciente)
    ELSE InsertPaciente(tx, d.nome_paciente, d.tipo_doc_paciente,
            OnlyDigits(d.numero_doc_paciente), d.cargo_paciente, d.empresa_paciente)

SaveOrUpdateDataMedico(tx, d) ==
    IF MedicoId(tx.tables.medicos, d.tipo_registro_medico, d.crm__medico) # 0
    THEN UpdateMedico(tx, d.nome_medico, d.tipo_registro_medico, d.crm__medico,
                      d.uf_crm_medico)
    ELSE InsertMedico(tx, d.nome_medico, d.tipo_registro_medico, d.crm__medico,
                      d.uf_crm_medico)

SaveOrUpdateDataAtestado(tx, d) ==
    IF tx.error # <<>> THEN tx
    ELSE InsertAtestado(tx,
            PacienteId(tx.tables.pacientes, d.tipo_doc_paciente,
                       OnlyDigits(d.numero_doc_paciente)),
            MedicoId(tx.tables.medicos, d.tipo_registro_medico, d.crm__medico),
            d.data_atestado, d.qtd_dias_atestado, d.codigo_cid, Hoje)

SaveOrUpdateDataTx(d, e, tables) ==
    Commit(e, SaveOrUpdateDataAtestado(
                SaveOrUpdateDataMedico(
                    SaveOrUpdateDataPaciente(FirstStatement(e, BeginTx(e, tables)), d), d), d))

\* what save_or_update_data leaves behind when its transaction ended as tx
\* and the rows visible afterwards are visible
SaveOrUpdateDataAfter(tx, visible) ==
    [db |-> visible,
     result |-> [kind |-> "return", saved |-> tx.error = <<>>],
     io |-> tx.io \o (IF tx.error = <<>> THEN <<>> ELSE <<"message_box">>),
     log |-> IF tx.error = <<>>
             THEN <<Info(<<"Dados salvos com sucesso no banco de dados">>)>>
             ELSE <<ErrorLog(<<"Erro ao conectar ao banco de dados: ">> \o tx.error),
                    ErrorLog(<<"Erro ao salvar dados no banco: ",
                               "Erro de conexão com o banco de dados: ">> \o tx.error)>>]

\* variant of SaveOrUpdateData: every statement is committed as it runs
SaveOrUpdateDataAutocommit(d, e, tables) ==
    SaveOrUpdateDataAfter(SaveOrUpdateDataTx(d, e, tables),
                          SaveOrUpdateDataTx(d, e, tables).tables)

\* save_or_update_data(data): get_db_connection of core/database.py closes
\* the connection without a commit when a statement raised
SaveOrUpdateData(d, e, tables) ==
    SaveOrUpdateDataAfter(SaveOrUpdateDataTx(d, e, tables),
                          Committed(tables, SaveOrUpdateDataTx(d, e, tables)))

\* the dicts the window saves: three patients, two of them with the same
\* digits under different document types and two with the same pair, the
\* doctor under two names, and a number of days that passes or breaks the
\* CHECK of atestados
DesktopData ==
    { [nome_paciente |-> p.nome, tipo_doc_paciente |-> p.tipo, numero_doc_paciente |-> p.numero,
       cargo_paciente |-> <<"A","n","a","l","i","s","t","a">>,
       empresa_paciente |-> <<"A","c","m","e">>,
       nome_medico |-> m.nome, tipo_registro_medico |-> <<"C","R","M">>,
       crm__medico |-> <<"4","5","6","7">>, uf_crm_medico |-> m.uf,
       data_atestado |-> <<"1","0","/","1","1","/","2","0","2","5">>,
       qtd_dias_atestado |-> dias, codigo_cid |-> <<"J","0","6",".","9">>] :
        p \in { [nome |-> <<"A","n","a">>, tipo |-> <<"C","P","F">>, numero |-> <<"1",".","2","-","3">>],
                [nome |-> <<"B","i","a">>, tipo |-> <<"R","G">>, numero |-> <<"1","2","3">>],
                [nome |-> <<"A","n","a"," ","M","a","r","i","a">>, tipo |-> <<"C","P","F">>,
                 numero |-> <<"1","2","3">>] },
        m \in { [nome |-> <<"D","r","a","."," ","R","i","t","a">>, uf |-> <<"D","F">>],
                [nome |-> <<"D","r","a","."," ","R","i","t","a"," ","L","u","z">>, uf |-> <<"S","P">>] },
        dias \in {3, 0} }

\* the requests the API saves: the same three patients, one doctor
StoreRequests ==
    { [paciente |-> [nome |-> p.nome, tipo_documento |-> p.tipo, numero_documento |-> p.numero,
                     cargo |-> <<"A","n","a","l","i","s","t","a">>,
                     empresa |-> <<"A","c","m","e">>],
       atestado |-> [data_atestado |-> <<"1","0","/","1","1","/","2","0","2","5">>,
                     dias_afastamento |-> 3, cid |-> <<"J","0","6",".","9">>,
                     cid_nao_informado |-> FALSE],
       medico |-> [nome |-> <<"D","r","a","."," ","R","i","t","a"," ","L","u","z">>,
                   tipo_registro |-> <<"C","R","M">>,
                   numero_registro |-> <<"4","5","6","7">>,
                   uf_registro |-> <<"D","F">>]] :
        p \in { [nome |-> <<"A","n","a">>, tipo |-> <<"c","p","f">>, numero |-> <<"1","2","3">>],
                [nome |-> <<"B","i","a">>, tipo |-> <<"r","g">>, numero |-> <<"1","2","3">>],
                [nome |-> <<"A","n","a"," ","M","a","r","i","a">>, tipo |-> <<"c","p","f">>,
                 numero |-> <<"1","2","3">>] } }

\* the stores: that of the desktop (SQLite, core/database.py), and those of
\* the API on SQLite and on PostgreSQL, where the generators work
StoreEnvs ==
    { [kind |-> k.kind, platform |-> k.platform, db |-> "ok",
       template |-> "ok", save_ok |-> TRUE, docx2pdf |-> "ok", reportlab |-> "ok",
       dir_ok |-> TRUE] :
        k \in { [kind |-> "desktop", platform |-> "none"],
                [kind |-> "api", platform |-> "none"],
                [kind |-> "api", platform |-> "RENDER"] } }

(* Specification SpecStore: a sequence of saves on one store. snapshots      *)
(* holds the rows from before the last save, data what it submitted,        *)
(* attempts the handlers called so far                                      *)

InitStore ==
    /\ data = <<>>
    /\ env \in StoreEnvs
    /\ template = GenTemplate
    /\ replacements = <<>>
    /\ document = NoDocument
    /\ snapshots = <<>>
    /\ pc = "idle"
    /\ result = NoResult
    /\ files = {}
    /\ log = <<>>
    /\ io = <<>>
    /\ attempts = <<>>
    /\ errors = <<>>
    /\ db = NoDb
    /\ _LOGO_CACHE = None

\* one call of save_or_update_data on the store of the desktop
SaveOrUpdateDataCall ==
    /\ env.kind = "desktop"
    /\ Len(attempts) < MaxSaves
    /\ \E d \in DesktopData, b \in DbBehaviours :
          /\ data' = d
          /\ env' = [env EXCEPT !.db = b]
          /\ db' = SaveOrUpdateData(d, [env EXCEPT !.db = b], db).db
          /\ result' = SaveOrUpdateData(d, [env EXCEPT !.db = b], db).result
          /\ io' = SaveOrUpdateData(d, [env EXCEPT !.db = b], db).io
          /\ log' = SaveOrUpdateData(d, [env EXCEPT !.db = b], db).log
    /\ snapshots' = <<db>>
    /\ attempts' = Append(attempts, "save_or_update_data")
    /\ pc' = "saved"
    /\ UNCHANGED <<template, replacements, document, files, errors, _LOGO_CACHE>>

\* one request to an endpoint on a store of the API
StoreRequest(endpoint, req, e, out) ==
    /\ env.kind = "api"
    /\ Len(attempts) < MaxSaves
    /\ data' = req
    /\ env' = e
    /\ result' = [endpoint |-> endpoint, response |-> out.result]
    /\ files' = out.files
    /\ io' = out.io
    /\ log' = out.log
    /\ replacements' = out.replacements
    /\ document' = [html |-> out.html]
    /\ db' = out.db
    /\ snapshots' = <<db>>
    /\ attempts' = Append(attempts, endpoint)
    /\ pc' = "saved"
    /\ UNCHANGED <<template, errors, _LOGO_CACHE>>

StoreGenerateDocument ==
    \E req \in StoreRequests, b \in DbBehaviours :
        StoreRequest("/api/generate-document", req, [env EXCEPT !.db = b],
                     GenerateDocumentEndpointOutcome(req, [env EXCEPT !.db = b], db))

StoreGenerateHtml ==
    \E req \in StoreRequests, b \in DbBehaviours :
        StoreRequest("/api/generate-html", req, [env EXCEPT !.db = b],
                     GenerateHtmlEndpointOutcome(req, [env EXCEPT !.db = b], db))

StoreGeneratePdf ==
    \E req \in StoreRequests, b \in DbBehaviours :
        StoreRequest("/api/generate-pdf", req, [env EXCEPT !.db = b],
                     GeneratePdfEndpointOutcome(req, [env EXCEPT !.db = b], db))

NextStore ==
    SaveOrUpdateDataCall \/ StoreGenerateDocument \/ StoreGenerateHtml \/ StoreGeneratePdf

SpecStore == InitStore /\ [][NextStore]_vars

-----------------------------------------------------------------------------
(* Vocabulary of the properties of substitution *)

\* the paragraphs of a document: body paragraphs, then table-cell paragraphs
Blocks(doc) == doc.paragraphs \o doc.cells

\* replacements[key]
ValueOf(repl, key) == repl[CHOOSE i \in 1..Len(repl) : repl[i][1] = key][2]

\* some key of the map occurs in the text
AnyKeyIn(text, repl) == \E i \in 1..Len(repl) : Contains(text, repl[i][1])

\* the template block rendered verbatim: every placeholder fragment replaced
\* by exactly its mapped value, every literal fragment kept
Rendered(t, repl) ==
    Concat([i \in 1..Len(t.fragments) |->
               IF t.fragments[i].kind = "key"
               THEN ValueOf(repl, t.fragments[i].text)
               ELSE t.fragments[i].text])

\* the number of characters of the block before fragment i
FragmentStart(t, i) == Len(FragmentsText(SubSeq(t.fragments, 1, i - 1)))

\* the run boundaries that fall strictly inside placeholder fragment i
SplitsInside(t, i) ==
    {p \in t.splits : /\ FragmentStart(t, i) < p
                      /\ p < FragmentStart(t, i) + Len(t.fragments[i].text)}

\* some placeholder of the block has its characters in two or more runs
PlaceholderSplitAcrossRuns(t) ==
    \E i \in 1..Len(t.fragments) :
        t.fragments[i].kind = "key" /\ SplitsInside(t, i) # {}

\* key ks is a proper substring of key kl
ProperSubstring(ks, kl) == Len(ks) < Len(kl) /\ Contains(kl, ks)

\* the block holds a placeholder that has another key of the map inside it
HasNestedPlaceholder(t, repl) ==
    \E i \in 1..Len(t.fragments) :
        /\ t.fragments[i].kind = "key"
        /\ \E j \in 1..Len(repl) : ProperSubstring(repl[j][1], t.fragments[i].text)

\* C1: a placeholder whose characters are split across two or more runs of a
\* block is found and replaced by its value: once substituir_placeholders has
\* run, the text of a block with a split placeholder is the block rendered
\* verbatim (whenever that rendering holds no placeholder text itself, which
\* a later replacement of the same pass would rewrite).
C1_SplitPlaceholderReplaced ==
    ( /\ Len(snapshots) >= 2
      /\ PlaceholderSplitAcrossRuns(template)
      /\ ~AnyKeyIn(Rendered(template, replacements), replacements) )
    => \A b \in 1..Len(Blocks(snapshots[2])) :
          ParagraphText(Blocks(snapshots[2])[b]) = Rendered(template, replacements)

\* a placeholder cut twice (three runs) was replaced
C1_Witness ==
    /\ Len(snapshots) = 2
    /\ \E i \in 1..Len(template.fragments) :
          template.fragments[i].kind = "key" /\ Cardinality(SplitsInside(template, i)) >= 2
    /\ ~AnyKeyIn(Rendered(template, replacements), replacements)
    /\ ParagraphText(Blocks(snapshots[2])[1]) = Rendered(template, replacements)
    /\ ParagraphText(Blocks(snapshots[2])[1]) # ParagraphText(Blocks(snapshots[1])[1])

\* C2: the keys are applied in descending key-length order, so a key that
\* contains another key of the map is applied before it, and a block holding
\* such a longer placeholder ends up with the longer key's value in its place,
\* not with the values of the shorter keys found inside it.
C2_LongerKeyFirst ==
    LET sorted == SortedItems(replacements)
    IN  /\ \A i, j \in 1..Len(sorted) : i < j => Len(sorted[i][1]) >= Len(sorted[j][1])
        /\ \A i, j \in 1..Len(sorted) :
              i < j => ~ProperSubstring(sorted[i][1], sorted[j][1])
        /\ ( /\ Len(snapshots) >= 2
             /\ HasNestedPlaceholder(template, replacements)
             /\ ~AnyKeyIn(Rendered(template, replacements), replacements) )
           => \A b \in 1..Len(Blocks(snapshots[2])) :
                 ParagraphText(Blocks(snapshots[2])[b]) = Rendered(template, replacements)

\* the block with the combined doctor placeholder was substituted
C2_Witness ==
    /\ Len(snapshots) = 2
    /\ HasNestedPlaceholder(template, replacements)
    /\ ~AnyKeyIn(Rendered(template, replacements), replacements)
    /\ ParagraphText(Blocks(snapshots[2])[1]) = ValueOf(replacements, K_medico_combinado)

\* C3: applying substituir_placeholders a second time with the same map is a
\* no-op: after the first application no key of the map occurs in any block,
\* and the second application changes no run of any block.
C3_SecondApplicationIsNoOp ==
    Len(snapshots) >= 3 =>
        /\ \A b \in 1..Len(Blocks(snapshots[2])) :
              ~AnyKeyIn(ParagraphText(Blocks(snapshots[2])[b]), replacements)
        /\ snapshots[3] = snapshots[2]

\* C4: placeholders are replaced verbatim: after substituir_placeholders every
\* block is its template with each placeholder replaced by exactly its mapped
\* value, and text brought in by a value is not rewritten by another key.
C4_ReplacedVerbatim ==
    Len(snapshots) >= 2 =>
        \A b \in 1..Len(Blocks(snapshots[2])) :
            ParagraphText(Blocks(snapshots[2])[b]) = Rendered(template, replacements)

\* the block b of the document was changed by application n of substituir_placeholders
BlockChanged(n, b) == Blocks(snapshots[n + 1])[b] # Blocks(snapshots[n])[b]

\* C5: when substituir_placeholders changes a block, the block's first run
\* holds the whole substituted text and keeps its formatting, every other run
\* is empty, and the block has the same runs as before (none added or removed).
C5_FirstRunHoldsText ==
    \A n \in 1..(Len(snapshots) - 1) :
        \A b \in 1..Len(Blocks(snapshots[n])) :
            LET before == Blocks(snapshots[n])[b]
                after == Blocks(snapshots[n + 1])[b]
            IN  BlockChanged(n, b) =>
                  /\ Len(after) = Len(before)
                  /\ Len(before) >= 1
                  /\ after[1].fmt = before[1].fmt
                  /\ after[1].text # ParagraphText(before)
                  /\ after[1].text = ReplaceEach(ParagraphText(before), SortedItems(replacements))
                  /\ \A i \in 2..Len(after) :
                        after[i].text = <<>> /\ after[i].fmt = before[i].fmt

\* a block of three runs was changed
C5_Witness ==
    /\ Len(snapshots) = 2
    /\ Len(Blocks(snapshots[1])[1]) = 3
    /\ BlockChanged(1, 1)
    /\ Blocks(snapshots[2])[1][1].text = Rendered(template, replacements)

-----------------------------------------------------------------------------
(* Properties of generate_document *)

\* the field is not in the record, or its value has nothing but whitespace
MissingOrBlank(d, campo) ==
    campo \notin DOMAIN d \/ \A i \in 1..Len(d[campo]) : d[campo][i] \in Whitespace

SomeRequiredFieldMissing(d) ==
    \E i \in 1..Len(RequiredFields) : MissingOrBlank(d, RequiredFields[i])

\* C6: generate_document called with a record in which a required field is
\* missing or blank raises DocumentGenerationError and emits nothing: the
\* template is not loaded, no file is written and nothing is opened.
C6_MissingFieldFailsWithoutOutput ==
    (pc = "done" /\ SomeRequiredFieldMissing(data)) =>
        /\ result.kind = "raise"
        /\ result.type = "DocumentGenerationError"
        /\ files = {}
        /\ io = <<>>
        /\ document = NoDocument

\* a call with a blank (not absent) required field failed although the
\* template was there and the output directory writable
C6_Witness ==
    /\ pc = "done"
    /\ \E i \in 1..Len(RequiredFields) :
          RequiredFields[i] \in DOMAIN data /\ MissingOrBlank(data, RequiredFields[i])
    /\ env.template = "ok" /\ env.save_ok
    /\ result.kind = "raise"
    /\ files = {}

\* C7: when generation fails because a required field is missing or empty, the
\* DocumentGenerationError raised names a missing field in its message.
C7_ErrorNamesMissingField ==
    (pc = "done" /\ SomeRequiredFieldMissing(data)) =>
        /\ result.kind = "raise"
        /\ \E i \in 1..Len(RequiredFields) :
              /\ MissingOrBlank(data, RequiredFields[i])
              /\ \E j \in 1..Len(result.msg) : result.msg[j] = RequiredFields[i]

-----------------------------------------------------------------------------
(* Properties of generate_document_unified *)

\* C8: for every output_format, generate_document_unified fails with an error
\* and writes no HTML, PDF or DOCX file when a required field of the record is
\* missing or empty.
C8_UnifiedMissingFieldFailsWithoutOutput ==
    (pc = "done" /\ env.output_format \in valid_formats /\ SomeRequiredFieldMissing(data)) =>
        /\ result.kind = "raise"
        /\ files = {}

\* the keys of a returned results dict, and the path under a key
ResultKeys(results) == {results[i][1] : i \in 1..Len(results)}
ResultPaths(results) == {results[i][2] : i \in 1..Len(results)}

\* some PDF backend of the environment produces the file
SomePdfBackendWorks == \E n \in DOMAIN env.backends : env.backends[n] = "ok"

C17_SingleFormatOnlyItsKey ==
    (pc = "done" /\ env.output_format \in {"html", "pdf", "docx"}) =>
        \/ /\ result.kind = "return"
           /\ ResultKeys(result.value) = {env.output_format}
           /\ Len(result.value) = 1
           /\ ResultPaths(result.value) \subseteq files
        \/ /\ result.kind = "raise"
           /\ result.type = "UnifiedDocumentError"

\* 'pdf' was asked, WeasyPrint is missing and xhtml2pdf produced the file
C17_Witness ==
    /\ pc = "done" /\ env.output_format = "pdf"
    /\ env.backends["WeasyPrint"] = "not_installed"
    /\ result.kind = "return"
    /\ ResultKeys(result.value) = {"pdf"}
    /\ ResultPaths(result.value) \subseteq files

-----------------------------------------------------------------------------
(* Properties of convert_html_to_pdf *)

\* the fixed priority order of the backends
PriorityOrder == <<"WeasyPrint", "pdfkit", "xhtml2pdf">>

\* C9: in auto mode the backends are attempted in the order WeasyPrint, pdfkit,
\* xhtml2pdf, each at most once; a backend is attempted only if every earlier
\* one failed, and the first backend that succeeds ends the call with its path:
\* no later backend is attempted.
C9_PriorityOrderFirstSuccessEnds ==
    (pc = "done" /\ env.method = "") =>
        /\ Len(attempts) \in 1..Len(PriorityOrder)
        /\ attempts = SubSeq(PriorityOrder, 1, Len(attempts))
        /\ \A i \in 1..Len(attempts) :
              i < Len(attempts) =>
                  /\ env.backends[attempts[i]] # "ok"
                  /\ i <= Len(errors) /\ errors[i][1] = attempts[i]
        /\ result.kind = "return" =>
              /\ result.value = PdfPath
              /\ Len(errors) = Len(attempts) - 1
              /\ env.backends[attempts[Len(attempts)]] \in {"ok", "no_file"}
        /\ result.kind = "raise" =>
              /\ attempts = PriorityOrder
              /\ Len(errors) = Len(PriorityOrder)
        /\ \A i \in 1..Len(PriorityOrder) :
              ( /\ env.backends[PriorityOrder[i]] = "ok"
                /\ \A j \in 1..(i - 1) : env.backends[PriorityOrder[j]] \in {"not_installed", "error"} )
              => /\ result.kind = "return"
                 /\ attempts = SubSeq(PriorityOrder, 1, i)

\* WeasyPrint was missing, pdfkit failed, xhtml2pdf produced the PDF
C9_Witness ==
    /\ pc = "done" /\ env.method = ""
    /\ env.backends["WeasyPrint"] = "not_installed"
    /\ env.backends["pdfkit"] = "error"
    /\ attempts = PriorityOrder
    /\ result = [kind |-> "return", value |-> PdfPath]

\* text occurs in the message parts msg from position p on
OccursAt(msg, p, text) ==
    /\ p >= 1 /\ p + Len(text) - 1 <= Len(msg)
    /\ SubSeq(msg, p, p + Len(text) - 1) = text

\* the reason a backend gives when it fails, read off the environment
OwnReason(name) ==
    IF env.backends[name] = "not_installed" THEN InstallHint(name)
    ELSE IF env.backends[name] = "pisa_err"
    THEN <<"Erro xhtml2pdf: ", "Erro ao gerar PDF com xhtml2pdf">>
    ELSE IF env.backends[name] = "no_file" THEN <<"Erro ", name, ": ", "PDF não foi gerado">>
    ELSE IF name = "xhtml2pdf" THEN <<"Erro xhtml2pdf: ", "conversion failed">>
    ELSE <<"Erro ", name, ": ", "conversion failed">>

\* the installation remedies of the aggregated message
Remedies ==
    << "* WeasyPrint (recomendado): pip install weasyprint\n",
       "* pdfkit: pip install pdfkit + wkhtmltopdf\n",
       "* xhtml2pdf: pip install xhtml2pdf\n\n" >>

\* C11: when every backend fails in auto mode, the PDFConversionError raised
\* holds, for each of the three backends in attempt order, the backend's name
\* with its own failure reason, and the installation remedy of each backend.
C11_AggregatedErrorListsEveryBackend ==
    (pc = "done" /\ env.method = "" /\ result.kind = "raise") =>
        /\ result.type = "PDFConversionError"
        /\ \A i \in 1..Len(Remedies) : \E j \in 1..Len(result.msg) : result.msg[j] = Remedies[i]
        /\ \E p \in [1..Len(PriorityOrder) -> 1..Len(result.msg)] :
              /\ \A i \in 1..Len(PriorityOrder) :
                    OccursAt(result.msg, p[i],
                             <<PriorityOrder[i], ": ">> \o OwnReason(PriorityOrder[i]))
              /\ \A i \in 1..(Len(PriorityOrder) - 1) : p[i] < p[i + 1]

\* WeasyPrint is missing, pdfkit raises, xhtml2pdf reports pisa errors
C11_Witness ==
    /\ pc = "done" /\ env.method = ""
    /\ env.backends = [WeasyPrint |-> "not_installed", pdfkit |-> "error",
                       xhtml2pdf |-> "pisa_err"]
    /\ result.kind = "raise"
    /\ Len(errors) = 3

\* C13: a backend that finishes without raising but leaves no file at
\* output_path is a failed backend: its failure is recorded and, in auto mode,
\* the next backend is attempted; a path is returned only when a file exists at
\* that path at the moment of return.
C13_MissingOutputIsFailure ==
    (pc = "done") =>
        /\ result.kind = "return" => result.value \in files
        /\ \A i \in 1..Len(attempts) :
              (env.backends[attempts[i]] = "no_file" /\ ~env.stale) =>
                  /\ PdfPath \notin files => result.kind = "raise"
                  /\ env.method = "" =>
                        /\ i <= Len(errors) /\ errors[i][1] = attempts[i]
                        /\ i < Len(PriorityOrder) => Len(attempts) > i

\* WeasyPrint returned without writing the PDF, then pdfkit wrote it
C13_Witness ==
    /\ pc = "done" /\ env.method = "" /\ ~env.stale
    /\ env.backends["WeasyPrint"] = "no_file"
    /\ env.backends["pdfkit"] = "ok"
    /\ attempts = <<"WeasyPrint", "pdfkit">>
    /\ result = [kind |-> "return", value |-> PdfPath]
    /\ PdfPath \in files

-----------------------------------------------------------------------------
(* Properties of convert_docx_to_pdf *)

\* LibreOffice failed in one of the ways the converter reports as
\* PDFConversionError: input missing, no binary, non-zero exit, timeout,
\* another exception, or no PDF where one was expected
LibreOfficeFailed ==
    \/ ~env.docx_exists
    \/ /\ env.output_dir # "unwritable"
       /\ \/ env.libreoffice \in {"timeout", "nonzero", "not_found", "other"}
          \/ env.libreoffice = "no_output" /\ ~env.stale

\* LibreOffice failed in one of the ways the statement lists: binary missing,
\* non-zero exit, timeout, output not produced
LibreOfficeFailedAsListed ==
    /\ env.docx_exists /\ env.output_dir # "unwritable"
    /\ \/ env.libreoffice \in {"timeout", "nonzero", "not_found"}
       \/ env.libreoffice = "no_output" /\ ~env.stale

\* C10 as stated: whenever LibreOffice fails, the failure is caught and
\* docx2pdf is attempted before the operation is allowed to fail.
C10_Docx2pdfAlwaysAttempted ==
    (pc = "done" /\ LibreOfficeFailedAsListed) =>
        /\ Len(errors) >= 1 /\ errors[1][1] = "LibreOffice"
        /\ attempts = <<"LibreOffice", "docx2pdf">>

\* C10 amended: whenever LibreOffice fails with a conversion error, the failure
\* is caught and recorded; docx2pdf is then attempted exactly when the platform
\* is Windows, and on any other platform the call fails at once with the
\* LibreOffice error alone. When a given output_dir cannot be created, the
\* OSError is not caught and docx2pdf is not attempted.
C10_Docx2pdfAttemptedOnWindowsOnly ==
    /\ (pc = "done" /\ LibreOfficeFailed) =>
          /\ Len(errors) >= 1 /\ errors[1][1] = "LibreOffice"
          /\ env.platform = "Windows" => attempts = <<"LibreOffice", "docx2pdf">>
          /\ env.platform # "Windows" =>
                /\ attempts = <<"LibreOffice">>
                /\ Len(errors) = 1
                /\ result.kind = "raise" /\ result.type = "PDFConversionError"
    /\ (pc = "done" /\ env.docx_exists /\ env.output_dir = "unwritable") =>
          /\ attempts = <<"LibreOffice">>
          /\ errors = <<>>
          /\ result.kind = "raise" /\ result.type = "OSError"

\* on Windows LibreOffice is not installed and docx2pdf produces the PDF
C10_Witness ==
    /\ pc = "done"
    /\ env.platform = "Windows"
    /\ env.docx_exists /\ env.output_dir = "none"
    /\ env.libreoffice = "not_found"
    /\ attempts = <<"LibreOffice", "docx2pdf">>
    /\ Len(errors) = 1
    /\ result = [kind |-> "return", value |-> DocxPdfPath]

-----------------------------------------------------------------------------
(* Properties of generate_pdf_direct *)

\* the message parts msg hold the parts text, contiguously
Mentions(msg, text) == \E p \in 1..Len(msg) : OccursAt(msg, p, text)

\* C12: when docx2pdf and then reportlab fail in generate_pdf_direct, the
\* PDFGenerationError raised lists the failure reason of each of the two.
C12_BothReasonsListed ==
    (pc = "done" /\ attempts = <<"docx2pdf", "reportlab">> /\ result.kind = "raise") =>
        /\ result.type = "PDFGenerationError"
        /\ Mentions(result.msg, ConverterReason("reportlab", env.reportlab))
        /\ Mentions(result.msg, ConverterReason("docx2pdf", env.docx2pdf))

\* C14: generate_pdf_direct returns a path only for a PDF that exists on disk;
\* docx2pdf returning without having produced the file is a failure after
\* which reportlab is attempted.
C14_ReturnedPdfExists ==
    (pc = "done") =>
        /\ result.kind = "return" => result.value \in files
        /\ (env.docx2pdf = "no_output" /\ attempts # <<>>) =>
              attempts = <<"docx2pdf", "reportlab">>

-----------------------------------------------------------------------------
(* Properties of the replacement values *)

\* the date line of both templates after the DOCX generator filled it
DocxDateLine == StrReplace(K_data_linha, K_data_assinatura, ValueOf(replacements, K_data_assinatura))

\* C15: for the same record the DOCX generator and the HTML generator
\* substitute the same literal text for every field both render: patient name,
\* formatted document, certificate date, days, CID, doctor name, registry text,
\* registry UF and the signature date.
C15_SameTextInDocxAndHtml ==
    (pc = "done") =>
        LET html == document.html_replacements
        IN  /\ ValueOf(replacements, K_nome_paciente) = ValueOf(html, K_nome_paciente)
            /\ ValueOf(replacements, K_documento_paciente_formatado)
                  = ValueOf(html, K_documento_paciente_formatado)
            /\ ValueOf(replacements, K_data_atestado) = ValueOf(html, K_data_atestado)
            /\ ValueOf(replacements, K_qtd_dias_atestado) = ValueOf(html, K_qtd_dias_atestado)
            /\ ValueOf(replacements, K_codigo_cid_docx) = ValueOf(html, K_codigo_cid)
            /\ ValueOf(replacements, K_nome_medico) = ValueOf(html, K_nome_medico)
            /\ ValueOf(replacements, K_crm__medico) = ValueOf(html, K_crm_medico)
            /\ ValueOf(replacements, K_uf_crm_medico) = ValueOf(html, K_uf_crm_medico)
            /\ DocxDateLine = ValueOf(html, K_data_linha)

\* the title tokens of the normalisation, in lower case, each with and
\* without its dot
TitleTokens ==
    LET words == { <<"d","r">>, <<"d","r","a">>, <<"d","r","(","a",")">>,
                   <<"p","r","o","f">>, <<"p","r","o","f","a">>,
                   <<"s","r">>, <<"s","r","a">>, <<"m","e","d">> }
    IN  words \cup {w \o <<".">> : w \in words}

\* the token tok is a whole leading word of s: it ends with its dot, or is
\* followed by whitespace or by the end of the name
LeadingTitle(s, tok) ==
    /\ StartsWithAt(Lower(s), 1, tok)
    /\ \/ tok[Len(tok)] = "."
       \/ Len(s) = Len(tok)
       \/ s[Len(tok) + 1] \in Whitespace

\* the name without its one leading title token, trimmed; a name without a
\* leading title is only trimmed
NomeSemTituloEsperado(nome) ==
    LET s == Strip(nome)
        found == {tok \in TitleTokens : LeadingTitle(s, tok)}
    IN  IF found = {} THEN s
        ELSE LET tok == CHOOSE x \in found : \A y \in found : Len(y) <= Len(x)
             IN  Strip(SubSeq(s, Len(tok) + 1, Len(s)))

\* C18: the doctor-name normalisation of generate_document removes exactly one
\* leading title token with its surrounding whitespace and keeps the rest of
\* the name; a name that merely starts with the letters of a title is left
\* unchanged apart from trimming.
C18_OnlyLeadingTitleRemoved ==
    (pc = "done") =>
        ValueOf(replacements, K_nome_medico) = NomeSemTituloEsperado(Get(data, "nome_medico"))

-----------------------------------------------------------------------------
(* Properties of the generation endpoints *)

\* the text the DOCX generator puts in place of the CID placeholder
RenderedCidDocx ==
    LET i == CHOOSE j \in 1..Len(replacements) : replacements[j][1] = K_codigo_cid_docx
    IN  replacements[i][2]

\* the 'not informed' text, in either spelling the code base uses
NotInformedTexts ==
    {NaoInformado, <<"N","Ã","O"," ","I","N","F","O","R","M","A","D","O">>}

\* C19: when the request has cid_nao_informado = true, every generation
\* endpoint that answers with a document renders the CID field as the 'not
\* informed' text and never as the submitted cid code.
C19_FlagHidesCidOnEveryEndpoint ==
    (pc = "done" /\ data.atestado.cid_nao_informado /\ result.response.status = 200) =>
        IF result.endpoint = "/api/generate-html"
        THEN /\ \E t \in NotInformedTexts : Contains(document.html, t)
             /\ ~Contains(document.html, data.atestado.cid)
        ELSE /\ RenderedCidDocx \in NotInformedTexts
             /\ RenderedCidDocx # data.atestado.cid

\* the generator of the endpoint was called: its first log line is there
GenerationAttempted ==
    \E i \in 1..Len(log) :
        log[i] \in {Info(<<"Iniciando geração de documento...">>),
                    Info(<<"Gerando documento no formato: ", "html">>)}

\* the save of the request did not commit
SaveFailed == \A i \in 1..Len(io) : io[i] # "db_commit"

\* the response the same endpoint gives to the same request when the
\* database works
ResponseWithDatabaseOk ==
    CASE result.endpoint = "/api/generate-document" ->
            GenerateDocumentEndpointOutcome(data, [env EXCEPT !.db = "ok"], NoDb).result
      [] result.endpoint = "/api/generate-html" ->
            GenerateHtmlEndpointOutcome(data, [env EXCEPT !.db = "ok"], NoDb).result
      [] result.endpoint = "/api/generate-pdf" ->
            GeneratePdfEndpointOutcome(data, [env EXCEPT !.db = "ok"], NoDb).result

\* C20: an error while saving the patient or the doctor is logged and never
\* prevents generation: after every database failure the generator is still
\* called with the submitted data, and the HTTP response (file or status 500)
\* is the one the same request gets when the database works.
C20_DatabaseFailureNeverPreventsGeneration ==
    (pc = "done") =>
        /\ GenerationAttempted
        /\ result.response = ResponseWithDatabaseOk
        /\ SaveFailed =>
             \E i \in 1..Len(log) :
                /\ log[i].level = "warning"
                /\ log[i].msg[1] = "Erro ao salvar no banco (continuando): "

\* the database cannot be opened and the PDF endpoint still answers the file
C20_Witness ==
    /\ pc = "done" /\ env.db = "connect_error"
    /\ result.endpoint = "/api/generate-pdf"
    /\ result.response.status = 200
    /\ GenerationAttempted

-----------------------------------------------------------------------------
(* Properties of the saves *)

\* a patient row with the submitted numero_doc carries the submitted values
PatientStored(req) ==
    \E i \in 1..Len(db.pacientes) :
        /\ db.pacientes[i].numero_doc = SanitizarEntrada(req.paciente.numero_documento)
        /\ db.pacientes[i].tipo_doc = SanitizarEntrada(req.paciente.tipo_documento)
        /\ db.pacientes[i].nome_completo = SanitizarEntrada(req.paciente.nome)
        /\ db.pacientes[i].cargo = SanitizarEntrada(req.paciente.cargo)
        /\ db.pacientes[i].empresa = SanitizarEntrada(req.paciente.empresa)

\* a doctor row with the submitted registry carries the submitted values
DoctorStored(req) ==
    \E i \in 1..Len(db.medicos) :
        /\ db.medicos[i].crm = SanitizarEntrada(req.medico.numero_registro)
        /\ db.medicos[i].tipo_crm = SanitizarEntrada(req.medico.tipo_registro)
        /\ db.medicos[i].nome_completo = SanitizarEntrada(req.medico.nome)
        /\ db.medicos[i].uf_crm = SanitizarEntrada(req.medico.uf_registro)

\* C21: POST /api/generate-html persists the patient and the doctor as POST
\* /api/generate-document does: after a successful request to either, with
\* SQLite or PostgreSQL and a working database, a patient row with the
\* submitted numero_doc and a doctor row with the submitted registry exist
\* and carry the submitted values.
C21_HtmlEndpointPersistsLikeDocumentEndpoint ==
    (/\ pc = "done"
     /\ result.endpoint \in {"/api/generate-html", "/api/generate-document"}
     /\ result.response.status = 200
     /\ env.db = "ok") =>
        PatientStored(data) /\ DoctorStored(data)

-----------------------------------------------------------------------------
(* Properties of sanitizar_nome_arquivo *)

\* the characters Windows and Linux refuse in a file name
ForbiddenInFilenames == {"<", ">", ":", "\"", "/", "\\", "|", "?", "*"}

\* control characters: those below U+0020, and all of them
ControlsBelow20 == {"\t", "\n", "\r", "\f"}
AllControls == ControlsBelow20 \cup {DEL}

\* name is not empty, has at most max_length characters, and none of them is
\* forbidden, whitespace, or in controls
CleanName(name, max_length, controls) ==
    /\ name # <<>>
    /\ Len(name) <= max_length
    /\ \A i \in 1..Len(name) :
          name[i] \notin ForbiddenInFilenames \cup Whitespace \cup controls

\* the file name has no path separator
NoSeparator(filename) == \A i \in 1..Len(filename) : filename[i] \notin {"/", "\\"}

\* C22 as stated: for every input and every max_length of at least 18 the
\* result is non-empty, has at most max_length characters, and contains no
\* forbidden character, no control character and no whitespace; the output
\* file name built from it has no path separator; both copies agree.
C22_SanitizedNameIsSafe ==
    (pc = "done" /\ data.max_length >= 18) =>
        /\ CleanName(result.document_generator, data.max_length, AllControls)
        /\ NoSeparator(result.output_filename)
        /\ result.unified_generator = result.document_generator

\* C22 amended: for every input and every max_length of at least 18 the
\* result is non-empty, has at most max_length characters, and contains no
\* forbidden character, no control character in the range U+0000..U+001F and
\* no whitespace (U+007F and the controls above it are kept); the output file
\* name built from it has no path separator; both copies agree.
C22_SanitizedNameIsSafeBelow20 ==
    (pc = "done" /\ data.max_length >= 18) =>
        /\ CleanName(result.document_generator, data.max_length, ControlsBelow20)
        /\ NoSeparator(result.output_filename)
        /\ result.unified_generator = result.document_generator

\* a name longer than the limit 18, with a separator, a tab and a space in it,
\* was cut to 18 clean characters
C22_Witness ==
    /\ pc = "done" /\ data.max_length = 18 /\ Len(data.nome) > 18
    /\ \E i, j, k \in 1..Len(data.nome) :
          data.nome[i] = "/" /\ data.nome[j] = "\t" /\ data.nome[k] = " "
    /\ Len(result.document_generator) = 18

\* C23: the string sanitizar_nome_arquivo returns never begins or ends with a
\* dot, for every input and every max_length, truncated inputs included.
C23_NoLeadingOrTrailingDot ==
    (pc = "done") =>
        \A name \in {result.document_generator, result.unified_generator} :
            name[1] # "." /\ name[Len(name)] # "."

-----------------------------------------------------------------------------
(* Properties of encode_image_to_base64 *)

\* C24: encode_image_to_base64(image_path) returns the data URI of the file
\* at image_path, or None when that file does not exist, after every sequence
\* of calls with any paths: the cache never changes the value returned for a
\* path.
C24_CacheNeverChangesTheValue ==
    (pc = "called") =>
        result.value = IF data.image_path \in DOMAIN env.images
                       THEN DataUri(data.image_path, env.images[data.image_path])
                       ELSE None

-----------------------------------------------------------------------------
(* Properties of the stores *)

\* the (tipo_doc, numero_doc) pair the last save submitted, as it is stored
SubmittedPair ==
    IF env.kind = "desktop"
    THEN <<data.tipo_doc_paciente, OnlyDigits(data.numero_doc_paciente)>>
    ELSE <<SanitizarEntrada(data.paciente.tipo_documento),
           SanitizarEntrada(data.paciente.numero_documento)>>

\* the last save left every patient row of another pair as it was
OtherPatientsUntouched ==
    \A i \in 1..Len(snapshots[1].pacientes) :
        <<snapshots[1].pacientes[i].tipo_doc, snapshots[1].pacientes[i].numero_doc>>
                # SubmittedPair
            => /\ i <= Len(db.pacientes)
               /\ db.pacientes[i] = snapshots[1].pacientes[i]

\* C25: a patient record is identified by the pair (tipo_doc, numero_doc):
\* after any sequence of saves through save_or_update_data or the API
\* endpoints, a save never modifies or replaces the stored record of a patient
\* whose pair differs from the submitted one, and the store never holds two
\* patient rows with the same pair.
C25_PatientIdentifiedByPair ==
    (pc = "saved") => (OtherPatientsUntouched /\ PacientesUnique(db.pacientes))

\* the patient submitted to save_or_update_data is stored as submitted
DesktopPatientCommitted ==
    \E i \in 1..Len(db.pacientes) :
        /\ db.pacientes[i].tipo_doc = data.tipo_doc_paciente
        /\ db.pacientes[i].numero_doc = OnlyDigits(data.numero_doc_paciente)
        /\ db.pacientes[i].nome_completo = data.nome_paciente
        /\ db.pacientes[i].cargo = data.cargo_paciente
        /\ db.pacientes[i].empresa = data.empresa_paciente

\* the doctor submitted to save_or_update_data is stored as submitted
DesktopDoctorCommitted ==
    \E i \in 1..Len(db.medicos) :
        /\ db.medicos[i].tipo_crm = data.tipo_registro_medico
        /\ db.medicos[i].crm = data.crm__medico
        /\ db.medicos[i].nome_completo = data.nome_medico
        /\ db.medicos[i].uf_crm = data.uf_crm_medico

\* exactly one atestado row was added, for the submitted patient and doctor
DesktopAtestadoCommitted ==
    /\ Len(db.atestados) = Len(snapshots[1].atestados) + 1
    /\ SubSeq(db.atestados, 1, Len(snapshots[1].atestados)) = snapshots[1].atestados
    /\ db.atestados[Len(db.atestados)].paciente_id
          = PacienteId(db.pacientes, data.tipo_doc_paciente,
                       OnlyDigits(data.numero_doc_paciente))
    /\ db.atestados[Len(db.atestados)].medico_id
          = MedicoId(db.medicos, data.tipo_registro_medico, data.crm__medico)
    /\ db.atestados[Len(db.atestados)].qtd_dias_atestado = data.qtd_dias_atestado
    /\ db.atestados[Len(db.atestados)].paciente_id # 0
    /\ db.atestados[Len(db.atestados)].medico_id # 0

\* C26: save_or_update_data is all-or-nothing: after any call either the
\* patient upsert, the doctor upsert and the new atestado row are all
\* committed, or, when any statement failed, the database is as it was before
\* the call.
C26_SaveOrUpdateDataAllOrNothing ==
    (pc = "saved" /\ env.kind = "desktop") =>
        IF result.saved
        THEN DesktopPatientCommitted /\ DesktopDoctorCommitted /\ DesktopAtestadoCommitted
        ELSE db = snapshots[1]

\* a second save whose atestado breaks CHECK(qtd_dias_atestado > 0), after
\* its statements renamed the stored patient and the stored doctor
C26_Witness ==
    /\ pc = "saved" /\ env.kind = "desktop" /\ env.db = "ok"
    /\ data.qtd_dias_atestado = 0
    /\ ~result.saved
    /\ Len(snapshots[1].atestados) = 1
    /\ \E i \in 1..Len(db.pacientes) :
          /\ db.pacientes[i].tipo_doc = data.tipo_doc_paciente
          /\ db.pacientes[i].numero_doc = OnlyDigits(data.numero_doc_paciente)
          /\ db.pacientes[i].nome_completo # data.nome_paciente
    /\ \E i \in 1..Len(db.medicos) : db.medicos[i].nome_completo # data.nome_medico

====
